---- MODULE Spec2Model ----
(***************************************************************************)
(* Trusted Agent Protocol (TAP): TAPSigner (shared/tap/signer.py) and      *)
(* TAPVerifier (shared/tap/verifier.py).                                   *)
(*                                                                         *)
(* Strings of the wire format are modelled by their structure:             *)
(*   - a header value is a record with a "kind": free text, the Signature  *)
(*     value  <label>=:<base64 payload>:  or the Signature-Input value     *)
(*     <label>=<params line>;                                              *)
(*   - a params line is the record of what the text spells: the component  *)
(*     list and the parameters that are present ("has");                   *)
(*   - a signature base is the sequence of its component lines plus the    *)
(*     final @signature-params line;                                       *)
(*   - SHA-256 and the signature schemes are ideal: a digest determines    *)
(*     its body, a signature determines its key and the signed base.       *)
(***************************************************************************)
EXTENDS Integers, Sequences, FiniteSets, TLC

\* ------------------------------------------------------------------------
\* shared/tap/models.py
\* ------------------------------------------------------------------------
BROWSING == "browsing"
CHECKOUT == "checkout"
ED25519 == "ed25519"
RSA_PSS_SHA256 == "rsa-pss-sha256"

\* Python's None, for optional strings and optional integers (timestamps
\* parsed by \d+ are never negative).
None == "None"
NoneInt == 0 - 1

\* body=None
NoBody == "<no body>"

\* ------------------------------------------------------------------------
\* Keys.  A key pair is named by one string; the PEM of its public half is
\* Pem(k), anything else fails to load.
\* ------------------------------------------------------------------------
Ed25519Keys == {"kA", "kB"}
RsaKeys == {"kR"}
Keys == Ed25519Keys \cup RsaKeys
Pem(k) == <<"PEM", k>>
MalformedPem == <<"PEM", "garbage">>

\* an ideal signature: valid for exactly one key pair and one message
Sig(k, base) == [b64 |-> TRUE, key |-> k, base |-> base]

\* ------------------------------------------------------------------------
\* Text helpers: str.lower() on header names, str.upper() on methods, and
\* Python's string order on the header names the model uses.
\* ------------------------------------------------------------------------
Lower(s) ==
    CASE s = "Signature" -> "signature"
      [] s = "Signature-Input" -> "signature-input"
      [] s = "X-B" -> "x-b"
      [] s = "X-A" -> "x-a"
      [] s = "Content-Digest" -> "content-digest"
      [] s = "SIGNATURE" -> "signature"
      [] s = "SIGNATURE-INPUT" -> "signature-input"
      [] OTHER -> s

Upper(s) ==
    CASE s = "get" -> "GET"
      [] s = "post" -> "POST"
      [] s = "delete" -> "DELETE"
      [] OTHER -> s

\* rank of a header name in Python's code-point order: upper case letters
\* sort before lower case ones
NameRank(s) ==
    CASE s = "Content-Digest" -> 1
      [] s = "X-A" -> 2
      [] s = "X-B" -> 3
      [] s = "content-digest" -> 4
      [] s = "x-a" -> 5
      [] s = "x-b" -> 6
      [] OTHER -> 7

\* sorted(names)
Sorted(S) ==
    CHOOSE q \in [1..Cardinality(S) -> S] :
        /\ \A i, j \in 1..Cardinality(S) : i < j => NameRank(q[i]) < NameRank(q[j])

\* ------------------------------------------------------------------------
\* Header values
\* ------------------------------------------------------------------------
Text(v) == [kind |-> "text", text |-> v]
SigValue(label, payload) == [kind |-> "sig", label |-> label, payload |-> payload]
InputValue(label, line) == [kind |-> "input", label |-> label, line |-> line]

\* `not value`: only the empty string is falsy
Truthy(v) == ~(v.kind = "text" /\ v.text = "")

\* {k.lower(): v for k, v in headers.items()}; the mappings of the model
\* never hold two names that differ in case only
LowerKeys(headers) ==
    [n \in {Lower(k) : k \in DOMAIN headers} |->
        headers[CHOOSE k \in DOMAIN headers : Lower(k) = n]]

NoHeaders == [n \in {} |-> Text("")]

\* d1.update(d2)
Update(d1, d2) ==
    [n \in DOMAIN d1 \cup DOMAIN d2 |-> IF n \in DOMAIN d2 THEN d2[n] ELSE d1[n]]

\* ------------------------------------------------------------------------
\* urlparse: a URL is the record of its parts
\* ------------------------------------------------------------------------
Url(scheme, netloc, path, query) ==
    [scheme |-> scheme, netloc |-> netloc, path |-> path, query |-> query]

Authority(url) == url.netloc

\* (mutant of PathWithQuery: an empty path stays empty)
PathWithQueryRaw(url) ==
    IF url.query # "" THEN <<url.path, "?", url.query>> ELSE <<url.path>>

\* path = parsed.path or "/"; if parsed.query: path = f"{path}?{query}"
PathWithQuery(url) ==
    LET path == IF url.path = "" THEN "/" ELSE url.path
    IN IF url.query # "" THEN <<path, "?", url.query>> ELSE <<path>>

\* base64(sha256(body)): ideal
ContentDigest(body) == <<"sha-256=:", body, ":">>

Line(name, value) == [name |-> name, value |-> value]
Base(lines, params_line) == [lines |-> lines, params |-> params_line]

\* number of "\n"-joined lines of a base
LineCount(base) == Len(base.lines) + 1

AllParams == {"components", "created", "expires", "keyid", "alg", "nonce", "tag"}

\* ------------------------------------------------------------------------
\* shared/tap/signer.py
\* ------------------------------------------------------------------------
\* TAPSigner.__init__: the private key is loaded whatever its type
TAPSigner(private_key, keyid, algorithm, validity_seconds) ==
    [private_key |-> private_key, keyid |-> keyid, algorithm |-> algorithm,
     validity_seconds |-> validity_seconds]

\* f'"{name}"' in the component list
Quote(name) == [quoted |-> name]

\* (mutant of SortedHeaderNames: the names are compared after lowercasing)
SortedLowercased(additional_headers) ==
    CHOOSE q \in [1..Cardinality(DOMAIN additional_headers) -> DOMAIN additional_headers] :
        \A i, j \in DOMAIN q : i < j => NameRank(Lower(q[i])) < NameRank(Lower(q[j]))

\* `if additional_headers:` is false for None and for the empty mapping
SortedHeaderNames(additional_headers) == Sorted(DOMAIN additional_headers)

LowerAll(q) == [i \in DOMAIN q |-> Lower(q[i])]
QuoteAll(q) == [i \in DOMAIN q |-> Quote(q[i])]

_build_signature_params_line(self, method, has_body, created, expires, nonce, interaction_type, additional_headers) ==
    LET components ==
            <<"@method", "@authority", "@path">>
            \o (IF has_body THEN <<"content-digest">> ELSE <<>>)
            \o LowerAll(SortedHeaderNames(additional_headers))
        alg == IF self.algorithm = ED25519 THEN "ed25519" ELSE "rsa-pss-sha256"
    IN [has |-> AllParams,
        order |-> <<"created", "expires", "keyid", "alg", "nonce", "tag">>,
        components |-> QuoteAll(components),
        created |-> created,
        expires |-> expires,
        keyid |-> self.keyid,
        alg |-> alg,
        nonce |-> nonce,
        tag |-> interaction_type]

_build_signature_base(self, method, authority, path, body, created, expires, nonce, interaction_type, additional_headers) ==
    LET names == SortedHeaderNames(additional_headers)
        lines ==
            << Line("@method", <<method>>),
               Line("@authority", <<authority>>),
               Line("@path", path) >>
            \o (IF body # NoBody /\ body # ""
                THEN << Line("content-digest", ContentDigest(body)) >>
                ELSE <<>>)
            \o [i \in DOMAIN names |->
                    Line(Lower(names[i]), <<additional_headers[names[i]]>>)]
    IN Base(lines,
            _build_signature_params_line(self, method, body # NoBody, created,
                                         expires, nonce, interaction_type,
                                         additional_headers))

\* (mutant of _build_signature_input: the header is rendered on its own and
\* forgets the content-digest component)
BuildSignatureInputNoDigest(self, method, has_body, created, expires, nonce, interaction_type, additional_headers) ==
    InputValue("sig1",
               _build_signature_params_line(self, method, FALSE, created,
                                            expires, nonce, interaction_type,
                                            additional_headers))

_build_signature_input(self, method, has_body, created, expires, nonce, interaction_type, additional_headers) ==
    InputValue("sig1",
               _build_signature_params_line(self, method, has_body, created,
                                            expires, nonce, interaction_type,
                                            additional_headers))

\* the key signs with the scheme of its own type
_create_signature(self, signature_base) == Sig(self.private_key, signature_base)

\* (mutant of sign: the validity is always the default of 300 seconds)
SignDefaultValidity(self, method, url, body, interaction_type, additional_headers, t, nonce) ==
    LET created == t
        expires == created + 300
        signature_base ==
            _build_signature_base(self, Upper(method), Authority(url),
                                  PathWithQuery(url), body, created, expires,
                                  nonce, interaction_type, additional_headers)
    IN [signature |-> SigValue("sig1", _create_signature(self, signature_base)),
        signature_input |->
            _build_signature_input(self, Upper(method), body # NoBody, created,
                                   expires, nonce, interaction_type,
                                   additional_headers),
        keyid |-> self.keyid,
        created |-> created,
        expires |-> expires,
        nonce |-> nonce,
        algorithm |-> self.algorithm]

\* TAPSigner.sign at time t, uuid4() returning nonce
sign(self, method, url, body, interaction_type, additional_headers, t, nonce) ==
    LET created == t
        expires == created + self.validity_seconds
        signature_base ==
            _build_signature_base(self, Upper(method), Authority(url),
                                  PathWithQuery(url), body, created, expires,
                                  nonce, interaction_type, additional_headers)
    IN [signature |-> SigValue("sig1", _create_signature(self, signature_base)),
        signature_input |->
            _build_signature_input(self, Upper(method), body # NoBody, created,
                                   expires, nonce, interaction_type,
                                   additional_headers),
        keyid |-> self.keyid,
        created |-> created,
        expires |-> expires,
        nonce |-> nonce,
        algorithm |-> self.algorithm]

\* SignatureComponents.to_headers
to_headers(sig) ==
    [n \in {"Signature", "Signature-Input"} |->
        IF n = "Signature" THEN sig.signature ELSE sig.signature_input]

\* additional_headers as a mapping of header values
AsHeaders(additional_headers) ==
    [n \in DOMAIN additional_headers |-> Text(additional_headers[n])]

\* an HTTP request
Request(method, url, body, headers) ==
    [method |-> method, url |-> url, body |-> body, headers |-> headers]

\* ------------------------------------------------------------------------
\* shared/tap/verifier.py
\* ------------------------------------------------------------------------
max_clock_skew == 60
max_signature_age == 300

\* len(self._used_nonces) > NonceHighWater clears the set.  The source's
\* mark is 10000; the model scales it down so that the clear is reachable.
NonceHighWater == 2

\* _load_public_key: the loaded key, or a ValueError
LoadFails(pem) == pem \notin {Pem(k) : k \in Keys}
_load_public_key(pem) == pem[2]

\* (mutant of register_agent: a keyid that is registered keeps its entry)
RegisterAgentKeepFirst(agents, keyid, public_key_pem, name, algorithm) ==
    IF LoadFails(public_key_pem) \/ keyid \in DOMAIN agents
    THEN agents
    ELSE [k \in DOMAIN agents \cup {keyid} |->
            IF k = keyid
            THEN [public_key |-> _load_public_key(public_key_pem),
                  name |-> IF name = None \/ name = "" THEN keyid ELSE name,
                  algorithm |-> algorithm]
            ELSE agents[k]]

\* (mutant of register_agent: the entry is written before the key is loaded)
RegisterAgentStoreFirst(agents, keyid, public_key_pem, name, algorithm) ==
    [k \in DOMAIN agents \cup {keyid} |->
        IF k = keyid
        THEN [public_key |-> IF LoadFails(public_key_pem)
                             THEN None ELSE _load_public_key(public_key_pem),
              name |-> IF name = None \/ name = "" THEN keyid ELSE name,
              algorithm |-> algorithm]
        ELSE agents[k]]

\* register_agent: the registry after the call (unchanged when the PEM
\* fails to load, the ValueError leaves before the assignment)
register_agent(agents, keyid, public_key_pem, name, algorithm) ==
    IF LoadFails(public_key_pem)
    THEN agents
    ELSE [k \in DOMAIN agents \cup {keyid} |->
            IF k = keyid
            THEN [public_key |-> _load_public_key(public_key_pem),
                  name |-> IF name = None \/ name = "" THEN keyid ELSE name,
                  algorithm |-> algorithm]
            ELSE agents[k]]

\* signature_input.startswith("sig1=")
StartsWithSig1(v) == v.kind \in {"input", "sig"} /\ v.label = "sig1"

Unquote(c) == c.quoted
UnquoteAll(q) == [i \in DOMAIN q |-> Unquote(q[i])]

\* _parse_signature_input: the params dict; a key the regular expressions do
\* not find is absent from "has" (params.get then gives None)
_parse_signature_input(signature_input) ==
    IF signature_input.kind = "input"
    THEN LET line == signature_input.line
         IN [has |-> line.has,
             keyid |-> IF "keyid" \in line.has THEN line.keyid ELSE None,
             created |-> IF "created" \in line.has THEN line.created ELSE NoneInt,
             expires |-> IF "expires" \in line.has THEN line.expires ELSE NoneInt,
             nonce |-> IF "nonce" \in line.has THEN line.nonce ELSE None,
             alg |-> IF "alg" \in line.has THEN line.alg ELSE None,
             tag |-> IF "tag" \in line.has THEN line.tag ELSE None,
             components |-> IF "components" \in line.has
                            THEN UnquoteAll(line.components) ELSE <<>>]
    ELSE [has |-> {}, keyid |-> None, created |-> NoneInt, expires |-> NoneInt,
          nonce |-> None, alg |-> None, tag |-> None, components |-> <<>>]

\* one line of the reconstructed base, or no line
ComponentLines(component, method, url, body, headers) ==
    CASE component = "@method" -> << Line("@method", <<Upper(method)>>) >>
      [] component = "@authority" -> << Line("@authority", <<Authority(url)>>) >>
      [] component = "@path" -> << Line("@path", PathWithQuery(url)) >>
      [] component = "content-digest" ->
            IF body # NoBody /\ body # ""
            THEN << Line("content-digest", ContentDigest(body)) >>
            ELSE <<>>
      [] OTHER ->
            << Line(component,
                    IF Lower(component) \in DOMAIN headers
                    THEN <<headers[Lower(component)].text>>
                    ELSE <<"">>) >>

RECURSIVE ReconstructLines(_, _, _, _, _)
ReconstructLines(components, method, url, body, headers) ==
    IF components = <<>>
    THEN <<>>
    ELSE ComponentLines(Head(components), method, url, body, headers)
         \o ReconstructLines(Tail(components), method, url, body, headers)

\* signature_input[5:], the text after "sig1="
ParamsText(signature_input) ==
    IF signature_input.kind = "input"
    THEN signature_input.line
    ELSE [has |-> {}, payload |-> signature_input.payload]

\* _reconstruct_signature_base; headers are the lower-cased headers
_reconstruct_signature_base(method, url, body, headers, params) ==
    Base(ReconstructLines(params.components, method, url, body, headers),
         ParamsText(headers["signature-input"]))

\* _extract_signature raises ValueError: no sig1=:...: in the header, or a
\* payload that is not base64
ExtractFails(signature_header) ==
    \/ signature_header.kind # "sig"
    \/ signature_header.label # "sig1"
    \/ ~signature_header.payload.b64
_extract_signature(signature_header) == signature_header.payload

\* (mutant of _verify_signature: the signature is checked against the
\* message only, whichever key made it)
VerifyUnderAnyKey(public_key, signature, message) ==
    signature.key \in Keys /\ signature.base = message

\* _verify_signature returns (TRUE) or raises InvalidSignature (FALSE); a
\* signature of the other scheme never verifies
_verify_signature(public_key, signature, message) ==
    signature.key = public_key /\ signature.base = message

VerificationResult(is_valid, agent_id, interaction_type, error_message, keyid, created, expires) ==
    [is_valid |-> is_valid, agent_id |-> agent_id,
     interaction_type |-> interaction_type, error_message |-> error_message,
     keyid |-> keyid, created |-> created, expires |-> expires]

Invalid(error_message, keyid, created, expires) ==
    VerificationResult(FALSE, None, None, error_message, keyid, created, expires)

\* what a call of verify leaves behind: the value returned (or the exception
\* that escaped) and the nonce set
Returns(result, nonces) == [raised |-> FALSE, result |-> result, nonces |-> nonces]
Raises(exception, nonces) ==
    [raised |-> TRUE, result |-> Invalid(exception, None, NoneInt, NoneInt),
     nonces |-> nonces]

\* self._used_nonces.add(nonce)
AddNonce(nonces, nonce) == nonces \cup {nonce}

\* (mutant of ClearIfOver: the store is never emptied)
ClearNever(nonces) == nonces

\* if len(self._used_nonces) > 10000: self._used_nonces.clear()
ClearIfOver(nonces) == IF Cardinality(nonces) > NonceHighWater THEN {} ELSE nonces

CommitNonce(nonces, nonce) == ClearIfOver(AddNonce(nonces, nonce))

\* (mutants of CheckParams.  NoAge: the age of the signature is not looked
\* at.  ClosedEdge: created = now + skew is already in the future.  AgeFirst:
\* the age is looked at before expires.)
CheckParamsVariant(agents, nonces, t, params, variant) ==
    LET keyid == params.keyid
        created == params.created
        expires == params.expires
        Fail(out) == [pass |-> FALSE, out |-> out]
        old == Fail(Returns(Invalid("Signature too old", keyid, created, NoneInt),
                            nonces))
    IN
    IF keyid \notin DOMAIN agents
    THEN Fail(Returns(Invalid("Unknown agent keyid", keyid, NoneInt, NoneInt), nonces))
    ELSE IF created = NoneInt
    THEN Fail(Raises("TypeError", nonces))
    ELSE IF created > t + max_clock_skew
            \/ (variant = "ClosedEdge" /\ created = t + max_clock_skew)
    THEN Fail(Returns(Invalid("Signature created in the future", keyid, created,
                              NoneInt), nonces))
    ELSE IF expires = NoneInt
    THEN Fail(Raises("TypeError", nonces))
    ELSE IF variant = "AgeFirst" /\ t - created > max_signature_age
    THEN old
    ELSE IF expires < t
    THEN Fail(Returns(Invalid("Signature has expired", keyid, created, expires),
                      nonces))
    ELSE IF variant # "NoAge" /\ t - created > max_signature_age
    THEN old
    ELSE IF params.nonce \in nonces
    THEN Fail(Returns(Invalid("Nonce already used (replay attack)", keyid, NoneInt,
                              NoneInt), nonces))
    ELSE [pass |-> TRUE, out |-> Returns(Invalid("<pass>", keyid, NoneInt, NoneInt), nonces)]

CheckParamsNoAge(agents, nonces, t, params) ==
    CheckParamsVariant(agents, nonces, t, params, "NoAge")
CheckParamsClosedEdge(agents, nonces, t, params) ==
    CheckParamsVariant(agents, nonces, t, params, "ClosedEdge")
CheckParamsAgeFirst(agents, nonces, t, params) ==
    CheckParamsVariant(agents, nonces, t, params, "AgeFirst")

\* verify up to the nonce check, for the parsed params: the result of the
\* first check that fails, or a pass
CheckParams(agents, nonces, t, params) ==
    LET keyid == params.keyid
        created == params.created
        expires == params.expires
        Fail(out) == [pass |-> FALSE, out |-> out]
    IN
    IF keyid \notin DOMAIN agents
    THEN Fail(Returns(Invalid("Unknown agent keyid", keyid, NoneInt, NoneInt), nonces))
    ELSE IF created = NoneInt
    THEN Fail(Raises("TypeError", nonces))
    ELSE IF created > t + max_clock_skew
    THEN Fail(Returns(Invalid("Signature created in the future", keyid, created,
                              NoneInt), nonces))
    ELSE IF expires = NoneInt
    THEN Fail(Raises("TypeError", nonces))
    ELSE IF expires < t
    THEN Fail(Returns(Invalid("Signature has expired", keyid, created, expires),
                      nonces))
    ELSE IF t - created > max_signature_age
    THEN Fail(Returns(Invalid("Signature too old", keyid, created, NoneInt), nonces))
    ELSE IF params.nonce \in nonces
    THEN Fail(Returns(Invalid("Nonce already used (replay attack)", keyid, NoneInt,
                              NoneInt), nonces))
    ELSE [pass |-> TRUE, out |-> Returns(Invalid("<pass>", keyid, NoneInt, NoneInt), nonces)]

\* verify from its start to the nonce check
CheckRequest(agents, nonces, t, headers_lower) ==
    IF \/ "signature" \notin DOMAIN headers_lower
       \/ "signature-input" \notin DOMAIN headers_lower
       \/ ~Truthy(headers_lower["signature"])
       \/ ~Truthy(headers_lower["signature-input"])
    THEN [pass |-> FALSE,
          out |-> Returns(Invalid("Missing Signature or Signature-Input headers",
                                  None, NoneInt, NoneInt), nonces)]
    ELSE IF ~StartsWithSig1(headers_lower["signature-input"])
    THEN [pass |-> FALSE,
          out |-> Returns(Invalid("Failed to parse Signature-Input", None, NoneInt,
                                  NoneInt), nonces)]
    ELSE CheckParams(agents, nonces, t,
                     _parse_signature_input(headers_lower["signature-input"]))

\* (mutant of SignatureResult: the tag is compared without regard to letter
\* case)
SignatureResultAnyCase(agent, method, url, body, headers_lower, params) ==
    IF ExtractFails(headers_lower["signature"])
    THEN Invalid("Failed to extract signature", params.keyid, NoneInt, NoneInt)
    ELSE IF ~_verify_signature(
                agent.public_key,
                _extract_signature(headers_lower["signature"]),
                _reconstruct_signature_base(method, url, body, headers_lower, params))
    THEN Invalid("Invalid signature", params.keyid, params.created, params.expires)
    ELSE VerificationResult(
            TRUE, agent.name,
            IF params.tag \in {"checkout", "Checkout"} THEN CHECKOUT ELSE BROWSING,
            None, params.keyid, params.created, params.expires)

\* verify from the reconstruction of the base on, the nonce set left aside:
\* the Invalid result of the signature checks, or the Valid result
SignatureResult(agent, method, url, body, headers_lower, params) ==
    IF ExtractFails(headers_lower["signature"])
    THEN Invalid("Failed to extract signature", params.keyid, NoneInt, NoneInt)
    ELSE IF ~_verify_signature(
                agent.public_key,
                _extract_signature(headers_lower["signature"]),
                _reconstruct_signature_base(method, url, body, headers_lower, params))
    THEN Invalid("Invalid signature", params.keyid, params.created, params.expires)
    ELSE VerificationResult(
            TRUE, agent.name,
            IF params.tag = "checkout" THEN CHECKOUT ELSE BROWSING,
            None, params.keyid, params.created, params.expires)

\* (mutant of CheckSignature: the nonce is marked used before the signature
\* is looked at)
CheckSignatureCommitFirst(result, nonces, nonce) ==
    Returns(result, CommitNonce(nonces, nonce))

\* the nonce is marked used only once the signature has verified
CheckSignature(result, nonces, nonce) ==
    Returns(result, IF result.is_valid THEN CommitNonce(nonces, nonce) ELSE nonces)

\* TAPVerifier.verify at time t
verify(agents, nonces, t, method, url, headers, body) ==
    LET headers_lower == LowerKeys(headers)
        pre == CheckRequest(agents, nonces, t, headers_lower)
        params == _parse_signature_input(headers_lower["signature-input"])
    IN IF ~pre.pass
       THEN pre.out
       ELSE CheckSignature(
                SignatureResult(agents[params.keyid], method, url, body,
                                headers_lower, params),
                nonces, params.nonce)

\* the error kinds of the specification, from the messages of the code
ErrorKind(result) ==
    CASE result.is_valid -> "Valid"
      [] result.error_message = "Missing Signature or Signature-Input headers"
            -> "MalformedHeaders"
      [] result.error_message = "Failed to parse Signature-Input" -> "MalformedHeaders"
      [] result.error_message = "Failed to extract signature" -> "MalformedHeaders"
      [] result.error_message = "Unknown agent keyid" -> "UnknownKey"
      [] result.error_message = "Signature created in the future" -> "CreatedInFuture"
      [] result.error_message = "Signature has expired" -> "Expired"
      [] result.error_message = "Signature too old" -> "TooOld"
      [] result.error_message = "Nonce already used (replay attack)" -> "NonceReplay"
      [] result.error_message = "Failed to reconstruct signature base"
            -> "BaseReconstructionFailed"
      [] result.error_message = "Invalid signature" -> "InvalidSignature"
      [] OTHER -> "Exception"

\* ------------------------------------------------------------------------
\* mock-merchant: database/products.py, database/carts.py,
\* database/orders.py and routes/checkout.py.  The three stores are one
\* record: stock (product id -> stock_quantity), carts (cart id -> items,
\* product id -> quantity), orders (in the order of their creation).
\* ------------------------------------------------------------------------
VISA_TOKEN == "visa_token"
CREDIT_CARD == "credit_card"

\* bounds of the model: the stock of the catalogue, the carts ever created,
\* the quantity of a product in a cart
InitialStock == 2
MaxCarts == 2
MaxQuantity == 2

ProductIds == {"prod-001"}

\* uuid4() of create_cart: the i-th cart id
CartNames == <<"c1", "c2", "c3", "c4">>
CartId(i) == CartNames[i]

NoItems == [p \in {} |-> 0]

ShopInit ==
    [stock |-> [p \in ProductIds |-> InitialStock],
     carts |-> [c \in {} |-> NoItems],
     orders |-> <<>>,
     carts_made |-> 0]

\* CartDatabase.create_cart
create_cart(shop0) ==
    LET id == CartId(shop0.carts_made + 1)
    IN [shop0 EXCEPT
          !.carts = [c \in DOMAIN shop0.carts \cup {id} |->
                        IF c = id THEN NoItems ELSE shop0.carts[c]],
          !.carts_made = @ + 1]

\* CartDatabase.add_item on an existing cart
add_item(carts, cart_id, product_id, quantity) ==
    LET items == carts[cart_id]
        added == [p \in DOMAIN items \cup {product_id} |->
                    IF p # product_id THEN items[p]
                    ELSE IF p \in DOMAIN items THEN items[p] + quantity
                    ELSE quantity]
    IN [carts EXCEPT ![cart_id] = added]

\* CartDatabase.delete_cart
delete_cart(carts, cart_id) == [c \in DOMAIN carts \ {cart_id} |-> carts[c]]

\* ProductDatabase.update_stock
update_stock(stock, product_id, quantity_change) ==
    IF product_id \notin DOMAIN stock \/ stock[product_id] + quantity_change < 0
    THEN stock
    ELSE [stock EXCEPT ![product_id] = @ + quantity_change]

\* OrderDatabase.create_order
create_order(orders, items, payment_method, payment_last_four) ==
    Append(orders, [status |-> "completed", items |-> items,
                    payment_method |-> payment_method,
                    payment_last_four |-> payment_last_four])

\* CheckoutRequest; the JSON bodies the model sends and what they parse to
CheckoutRequest(cart_id, method, token) ==
    [cart_id |-> cart_id, payment |-> [method |-> method, token |-> token]]

ParseCheckout(body) ==
    CASE body = "visa c1" -> CheckoutRequest("c1", VISA_TOKEN, "tok_4242")
      [] body = "visa c2" -> CheckoutRequest("c2", VISA_TOKEN, "tok_4242")
      [] body = "visa c1 no token" -> CheckoutRequest("c1", VISA_TOKEN, None)
      [] OTHER -> CheckoutRequest("c1", CREDIT_CARD, None)

\* token[-4:]
LastFour(token) == IF token = "tok_4242" THEN "4242" ELSE "****"

\* the answer of a route: the status code and the stores it leaves
Http(status_code, shop1) == [status_code |-> status_code, shop |-> shop1]

\* lines 72-118 of checkout: the stock check, the stock update, the order,
\* the deletion of the cart
Fulfil(shop0, request) ==
    LET items == shop0.carts[request.cart_id]
        token == request.payment.token
    IN IF \E p \in DOMAIN items :
             p \notin DOMAIN shop0.stock \/ shop0.stock[p] < items[p]
       THEN Http(400, shop0)
       ELSE Http(200,
                 [shop0 EXCEPT
                    !.stock = [p \in DOMAIN shop0.stock |->
                                 IF p \in DOMAIN items
                                 THEN update_stock(shop0.stock, p, 0 - items[p])[p]
                                 ELSE shop0.stock[p]],
                    !.orders = create_order(@, items, request.payment.method,
                                            IF token # None THEN LastFour(token)
                                            ELSE None),
                    !.carts = delete_cart(@, request.cart_id)])

\* (mutant of checkout: the payment method is not looked at)
CheckoutAnyPayment(shop0, request, tap) ==
    IF request.cart_id \notin DOMAIN shop0.carts
    THEN Http(404, shop0)
    ELSE IF DOMAIN shop0.carts[request.cart_id] = {}
    THEN Http(400, shop0)
    ELSE Fulfil(shop0, request)

\* routes/checkout.py: checkout(request, tap)
checkout(shop0, request, tap) ==
    IF request.cart_id \notin DOMAIN shop0.carts
    THEN Http(404, shop0)
    ELSE IF DOMAIN shop0.carts[request.cart_id] = {}
    THEN Http(400, shop0)
    ELSE LET is_agent_checkout ==
                tap.is_valid /\ tap.interaction_type = CHECKOUT
         IN IF request.payment.method = VISA_TOKEN /\ ~is_agent_checkout
            THEN Http(403, shop0)
            ELSE IF request.payment.method = VISA_TOKEN
                    /\ request.payment.token = None
            THEN Http(400, shop0)
            ELSE Fulfil(shop0, request)

\* ------------------------------------------------------------------------
\* The state machine: one TAPVerifier, the signers of the agents, the clock
\* and the request on its way to the verifier.
\* ------------------------------------------------------------------------
VARIABLES
    now,             \* int(time.time())
    trusted_agents,  \* TAPVerifier._trusted_agents
    used_nonces,     \* TAPVerifier._used_nonces
    wire,            \* the request presented to the verifier
    orig,            \* the request as TAPSigner.sign signed it
    outcome,         \* the answer of the last verify call, until the next request is made
    accepted,        \* history: [keyid, nonce, expires] of every Valid result
    accepted_twice,  \* history: the (keyid, nonce) pairs returned Valid again
    uuid_ctr,        \* number of uuid4() values drawn
    ticks,           \* number of clock steps taken
    thr,             \* the verify calls in progress, one per thread
    shop             \* the merchant's product_db, cart_db and order_db

vars == <<now, trusted_agents, used_nonces, wire, orig, outcome, accepted,
          accepted_twice, uuid_ctr, ticks, thr, shop>>

\* bounds of the model
Now0 == 1000
MaxSigns == 3
MaxTicks == 1

Threads == {1, 2}
Idle == [pc |-> "idle"]

NoRequest == [method |-> "<none>"]
NoOutcome == [op |-> "<none>"]

\* uuid4(): the i-th value drawn
UuidNames == <<"u1", "u2", "u3", "u4", "u5", "u6", "u7", "u8">>
Uuid(i) == UuidNames[i]

Init ==
    /\ now = Now0
    /\ trusted_agents = [k \in {} |-> None]
    /\ used_nonces = {}
    /\ wire = NoRequest
    /\ orig = NoRequest
    /\ outcome = NoOutcome
    /\ accepted = {}
    /\ accepted_twice = {}
    /\ uuid_ctr = 0
    /\ ticks = 0
    /\ thr = [t \in Threads |-> Idle]
    /\ shop = ShopInit

\* the nonce the request's Signature-Input spells, None when it spells none
NonceOf(req) ==
    LET h == LowerKeys(req.headers)
    IN IF "signature-input" \in DOMAIN h /\ h["signature-input"].kind = "input"
       THEN _parse_signature_input(h["signature-input"]).nonce
       ELSE None

\* register_agent(keyid, public_key_pem, name, algorithm)
\* ArgSet: the argument tuples <<keyid, public_key_pem, name, algorithm>>
Register(ArgSet) ==
    /\ \E a \in ArgSet :
          trusted_agents' = register_agent(trusted_agents, a[1], a[2], a[3], a[4])
    /\ UNCHANGED <<now, used_nonces, wire, orig, outcome, accepted, accepted_twice,
                   uuid_ctr, ticks, thr, shop>>

\* an agent signs a request with TAPSigner.sign and sends it with the extra
\* headers it covered
Sign(SignerSet, MethodSet, UrlSet, BodySet, ExtraSet, TagSet) ==
    /\ uuid_ctr < MaxSigns
    /\ wire = NoRequest
    /\ \E self \in SignerSet, method \in MethodSet, url \in UrlSet,
          body \in BodySet, extra \in ExtraSet, tag \in TagSet :
          LET sc == sign(self, method, url, body, tag, extra, now, Uuid(uuid_ctr + 1))
              req == Request(method, url, body,
                             Update(AsHeaders(extra), to_headers(sc)))
          IN /\ wire' = req
             /\ orig' = req
    /\ uuid_ctr' = uuid_ctr + 1
    /\ outcome' = NoOutcome
    /\ UNCHANGED <<now, trusted_agents, used_nonces, accepted, accepted_twice,
                   ticks, thr, shop>>

\* a client of another make presents a request it signed the same way, with
\* its own configuration, its own clock (off by d) and a nonce of its choice
Present(SignerSet, OffsetSet, NonceSet, TagSet, req0) ==
    /\ wire = NoRequest
    /\ \E self \in SignerSet, d \in OffsetSet, nonce \in NonceSet, tag \in TagSet :
          LET sc == sign(self, req0.method, req0.url, req0.body, tag, NoHeaders,
                         now + d, nonce)
          IN wire' = Request(req0.method, req0.url, req0.body, to_headers(sc))
    /\ orig' = NoRequest
    /\ outcome' = NoOutcome
    /\ UNCHANGED <<now, trusted_agents, used_nonces, accepted, accepted_twice,
                   uuid_ctr, ticks, thr, shop>>

\* the clock advances
Tick(StepSet) ==
    /\ ticks < MaxTicks
    /\ \E d \in StepSet : now' = now + d
    /\ ticks' = ticks + 1
    /\ UNCHANGED <<trusted_agents, used_nonces, wire, orig, outcome, accepted,
                   accepted_twice, uuid_ctr, thr, shop>>

\* TAPVerifier.verify on the presented request
Verify ==
    /\ wire # NoRequest
    /\ LET out == verify(trusted_agents, used_nonces, now, wire.method, wire.url,
                         wire.headers, wire.body)
           pair == <<out.result.keyid, NonceOf(wire)>>
       IN /\ used_nonces' = out.nonces
          /\ outcome' = [op |-> "verify", raised |-> out.raised,
                         result |-> out.result, req |-> wire, orig |-> orig,
                         at |-> now]
          /\ accepted' =
                IF out.result.is_valid
                THEN accepted \cup {[keyid |-> pair[1], nonce |-> pair[2],
                                     expires |-> out.result.expires]}
                ELSE accepted
          /\ accepted_twice' =
                IF out.result.is_valid
                   /\ \E a \in accepted : a.keyid = pair[1] /\ a.nonce = pair[2]
                THEN accepted_twice \cup {pair}
                ELSE accepted_twice
    /\ wire' = NoRequest
    /\ orig' = NoRequest
    /\ UNCHANGED <<now, trusted_agents, uuid_ctr, ticks, thr, shop>>

\* the request the verifier answered last is presented once more, unchanged
Replay ==
    /\ wire = NoRequest
    /\ outcome # NoOutcome
    /\ wire' = outcome.req
    /\ orig' = outcome.orig
    /\ UNCHANGED <<now, trusted_agents, used_nonces, outcome, accepted,
                   accepted_twice, uuid_ctr, ticks, thr, shop>>

\* a signature no key made
Garbage(base) == [b64 |-> TRUE, key |-> "<no key>", base |-> base]

\* the Signature header of the request on the way is replaced by one that
\* no key made
CorruptSignature ==
    /\ wire # NoRequest
    /\ "Signature" \in DOMAIN wire.headers
    /\ wire.headers["Signature"].kind = "sig"
    /\ wire.headers["Signature"].payload.key \in Keys
    /\ wire' = [wire EXCEPT !.headers["Signature"] =
                    SigValue("sig1", Garbage(@.payload.base))]
    /\ UNCHANGED <<now, trusted_agents, used_nonces, orig, outcome, accepted,
                   accepted_twice, uuid_ctr, ticks, thr, shop>>

\* ------------------------------------------------------------------------
\* Spec: two agents, their signers, replays, foreign clients
\* ------------------------------------------------------------------------
U1 == Url("https", "merchant.example", "/api/products", "q=headphones")
Get1 == Request("GET", U1, NoBody, NoHeaders)

AgentSigners ==
    {TAPSigner("kA", "idA", ED25519, 300), TAPSigner("kB", "idB", ED25519, 300)}

\* a client holding agent B's key and identity
ForeignSigners == {TAPSigner("kB", "idB", ED25519, 300)}

RegisterS ==
    Register({<<"idA", Pem("kA"), "Agent A", ED25519>>,
              <<"idB", Pem("kB"), "Agent B", ED25519>>})
SignS == Sign(AgentSigners, {"GET"}, {U1}, {NoBody}, {NoHeaders}, {BROWSING})
PresentS == Present(ForeignSigners, {0}, {"u1"}, {BROWSING}, Get1)
TickS == Tick({1, 301})

Next ==
    \/ RegisterS
    \/ SignS
    \/ PresentS
    \/ CorruptSignature
    \/ TickS
    \/ Verify
    \/ Replay

Spec == Init /\ [][Next]_vars

\* ------------------------------------------------------------------------
\* SpecConc: verify called from two threads on one TAPVerifier.  verify takes
\* no lock; a thread can be preempted between the membership test of line
\* 178, the add of line 228 and the clear of lines 230-231.
\* ------------------------------------------------------------------------
\* lines 116-183: the checks up to the nonce membership test
TCheck(t) ==
    /\ thr[t].pc = "idle"
    /\ wire # NoRequest
    /\ LET pre == CheckRequest(trusted_agents, used_nonces, now,
                               LowerKeys(wire.headers))
           raced == \E o \in Threads \ {t} : thr[o].pc \in {"checked", "added"}
       IN thr' = [thr EXCEPT ![t] =
                    IF pre.pass
                    THEN [pc |-> "checked", req |-> wire, raced |-> raced,
                          found |-> trusted_agents[
                              _parse_signature_input(
                                  LowerKeys(wire.headers)["signature-input"]).keyid]]
                    ELSE [pc |-> "done", req |-> wire, raced |-> raced,
                          result |-> pre.out.result]]
    /\ UNCHANGED <<now, trusted_agents, used_nonces, wire, orig, outcome, accepted,
                   accepted_twice, uuid_ctr, ticks, shop>>

\* (mutant of TCommit: the name is read from the registry a second time,
\* after registrations that may have come in between)
TCommitTwoReads(t) ==
    /\ thr[t].pc = "checked"
    /\ LET req == thr[t].req
           h == LowerKeys(req.headers)
           params == _parse_signature_input(h["signature-input"])
           result == SignatureResult(trusted_agents[params.keyid], req.method,
                                     req.url, req.body, h, params)
       IN IF result.is_valid
          THEN /\ used_nonces' = AddNonce(used_nonces, params.nonce)
               /\ \E name \in {"Agent A", "Agent B"} :
                     thr' = [thr EXCEPT ![t] = [@ EXCEPT !.pc = "added"] @@
                                [result |-> [result EXCEPT !.agent_id = name]]]
          ELSE /\ used_nonces' = used_nonces
               /\ thr' = [thr EXCEPT ![t] = [@ EXCEPT !.pc = "done"] @@
                                            [result |-> result]]
    /\ UNCHANGED <<now, trusted_agents, wire, orig, outcome, accepted,
                   accepted_twice, uuid_ctr, ticks, shop>>

\* lines 185-228: the signature checks and the add
TCommit(t) ==
    /\ thr[t].pc = "checked"
    /\ LET req == thr[t].req
           h == LowerKeys(req.headers)
           params == _parse_signature_input(h["signature-input"])
           result == SignatureResult(trusted_agents[params.keyid], req.method,
                                     req.url, req.body, h, params)
       IN IF result.is_valid
          THEN /\ used_nonces' = AddNonce(used_nonces, params.nonce)
               /\ thr' = [thr EXCEPT ![t] = [@ EXCEPT !.pc = "added"] @@
                                            [result |-> result]]
          ELSE /\ used_nonces' = used_nonces
               /\ thr' = [thr EXCEPT ![t] = [@ EXCEPT !.pc = "done"] @@
                                            [result |-> result]]
    /\ UNCHANGED <<now, trusted_agents, wire, orig, outcome, accepted,
                   accepted_twice, uuid_ctr, ticks, shop>>

\* lines 229-248: the clear, and the return of the Valid result
TFinish(t) ==
    /\ thr[t].pc = "added"
    /\ used_nonces' = ClearIfOver(used_nonces)
    /\ thr' = [thr EXCEPT ![t].pc = "done"]
    /\ LET pair == <<thr[t].result.keyid, NonceOf(thr[t].req)>>
       IN /\ accepted' = accepted \cup {[keyid |-> pair[1], nonce |-> pair[2],
                                        expires |-> thr[t].result.expires]}
          /\ accepted_twice' =
                IF \E a \in accepted : a.keyid = pair[1] /\ a.nonce = pair[2]
                THEN accepted_twice \cup {pair}
                ELSE accepted_twice
    /\ UNCHANGED <<now, trusted_agents, wire, orig, outcome, uuid_ctr, ticks, shop>>

\* the caller takes the result; the thread is free for the next call
TReturn(t) ==
    /\ thr[t].pc = "done"
    /\ thr' = [thr EXCEPT ![t] = Idle]
    /\ UNCHANGED <<now, trusted_agents, used_nonces, wire, orig, outcome, accepted,
                   accepted_twice, uuid_ctr, ticks, shop>>

NextConc ==
    \/ RegisterS
    \/ SignS
    \/ \E t \in Threads : TCheck(t)
    \/ \E t \in Threads : TCommit(t)
    \/ \E t \in Threads : TFinish(t)
    \/ \E t \in Threads : TReturn(t)

SpecConc == Init /\ [][NextConc]_vars

\* C3: of two verify calls that carry the same (keyid, nonce) and run
\* concurrently on one verifier, at most one returns Valid and the other
\* returns NonceReplay.
C3_OneWinner ==
    \A t \in Threads : \A o \in Threads \ {t} :
        (/\ thr[t].pc = "done"
         /\ thr[o].pc = "done"
         /\ thr[o].raced
         /\ thr[t].req = thr[o].req
         /\ thr[t].result.is_valid)
        => ErrorKind(thr[o].result) = "NonceReplay"

\* ------------------------------------------------------------------------
\* SpecRT: what the signer signs against what the verifier rebuilds, over
\* methods, URLs, bodies, extra headers and tags, with the request changed
\* on its way
\* ------------------------------------------------------------------------
\* the requests that differ from req in one of method, authority, path,
\* query, body or the value of one header other than the two signature
\* headers.  A missing body and an empty body are the same request.
TamperedRequests(req, MethodSet, AuthoritySet, PathSet, QuerySet, BodySet, ValueSet) ==
    {[req EXCEPT !.method = m] : m \in MethodSet \ {req.method}}
    \cup {[req EXCEPT !.url.netloc = a] : a \in AuthoritySet \ {req.url.netloc}}
    \cup {[req EXCEPT !.url.path = q] : q \in PathSet \ {req.url.path}}
    \cup {[req EXCEPT !.url.query = q] : q \in QuerySet \ {req.url.query}}
    \cup {[req EXCEPT !.body = b] :
            b \in {c \in BodySet \ {req.body} : ~({c, req.body} \subseteq {NoBody, ""})}}
    \cup {[req EXCEPT !.headers[n[1]] = Text(n[2])] :
            n \in {m \in (DOMAIN req.headers \ {"Signature", "Signature-Input"})
                            \X ValueSet : req.headers[m[1]].text # m[2]}}

\* the signed request is changed on its way to the verifier
Tamper(MethodSet, AuthoritySet, PathSet, QuerySet, BodySet, ValueSet) ==
    /\ wire # NoRequest
    /\ wire = orig
    /\ \E r \in TamperedRequests(wire, MethodSet, AuthoritySet, PathSet, QuerySet,
                                 BodySet, ValueSet) : wire' = r
    /\ UNCHANGED <<now, trusted_agents, used_nonces, orig, outcome, accepted,
                   accepted_twice, uuid_ctr, ticks, thr, shop>>

U2 == Url("https", "merchant.example:8443", "", "")

MethodsRT == {"GET", "get", "POST"}
BodiesRT == {NoBody, "", "b1"}
ExtrasRT ==
    {NoHeaders,
     [n \in {"X-B", "x-a"} |-> IF n = "X-B" THEN "v1" ELSE "v2"],
     [n \in {"Content-Digest"} |-> "v1"]}

SignersRT ==
    {TAPSigner("kA", "idA", ED25519, 300), TAPSigner("kR", "idR", RSA_PSS_SHA256, 300)}

RegisterRT ==
    Register({<<"idA", Pem("kA"), "Agent A", ED25519>>,
              <<"idA", Pem("kB"), "Agent B", ED25519>>,
              <<"idR", Pem("kR"), None, RSA_PSS_SHA256>>})
\* the first request an agent signs
SignRT ==
    /\ uuid_ctr = 0
    /\ Sign(SignersRT, MethodsRT, {U1, U2}, BodiesRT, ExtrasRT, {BROWSING, CHECKOUT})
TamperRT ==
    Tamper({"GET", "get", "DELETE"}, {"merchant.example", "evil.example"},
           {"/api/products", "/api/orders"}, {"q=headphones", "q=tv"},
           {NoBody, "", "b1", "b2"}, {"v1", "v3"})

NextRT ==
    \/ RegisterRT
    \/ SignRT
    \/ TamperRT
    \/ Verify

SpecRT == Init /\ [][NextRT]_vars

\* ------------------------------------------------------------------------
\* SpecOrder: requests that fail several checks at once: clients with any
\* key, a registered or an unknown keyid, either algorithm label and a clock
\* that is late, right or early; replays; bad signatures
\* ------------------------------------------------------------------------
SignersO ==
    {TAPSigner(k, id, alg, 300) :
        k \in {"kA", "kB"}, id \in {"idA", "idX"}, alg \in {ED25519, RSA_PSS_SHA256}}

RegisterO ==
    Register({<<"idA", Pem("kA"), "Agent A", ED25519>>,
              <<"idA", Pem("kA"), "Agent A", RSA_PSS_SHA256>>})
PresentO == Present(SignersO, {0 - 301, 0, 61}, {"x1"}, {BROWSING}, Get1)

NextOrder ==
    \/ RegisterO
    \/ PresentO
    \/ CorruptSignature
    \/ Replay
    \/ TickS
    \/ Verify

SpecOrder == Init /\ [][NextOrder]_vars

\* ------------------------------------------------------------------------
\* SpecParse: requests of clients that leave a parameter out of
\* Signature-Input, and requests whose signature headers were dropped,
\* relabelled, re-cased or damaged on the way
\* ------------------------------------------------------------------------
\* the text of a params line with parameter p (for "components": the
\* parenthesized list) left out
Without(line, p) == [line EXCEPT !.has = @ \ {p}]

\* the signature a client makes over the base verify rebuilds from the
\* request and the Signature-Input it sends
SignRebuilt(key, method, url, body, signature_input) ==
    LET h == LowerKeys([n \in {"Signature-Input"} |-> signature_input])
    IN Sig(key, _reconstruct_signature_base(method, url, body, h,
                                            _parse_signature_input(signature_input)))

\* a client sends a request whose Signature-Input lacks one parameter and
\* whose signature covers exactly what it sends
PresentWithout(SignerSet, DropSet, OffsetSet, NonceSet, TagSet, req0) ==
    /\ wire = NoRequest
    /\ \E self \in SignerSet, p \in DropSet, d \in OffsetSet, nonce \in NonceSet, tag \in TagSet :
          LET line == Without(
                        _build_signature_params_line(
                            self, Upper(req0.method), req0.body # NoBody, now + d,
                            now + d + self.validity_seconds, nonce, tag, NoHeaders),
                        p)
              input == InputValue("sig1", line)
              sig == SigValue("sig1", SignRebuilt(self.private_key, req0.method,
                                                  req0.url, req0.body, input))
          IN wire' = Request(req0.method, req0.url, req0.body,
                             [n \in {"Signature", "Signature-Input"} |->
                                IF n = "Signature" THEN sig ELSE input])
    /\ orig' = NoRequest
    /\ outcome' = NoOutcome
    /\ UNCHANGED <<now, trusted_agents, used_nonces, accepted, accepted_twice,
                   uuid_ctr, ticks, thr, shop>>

\* str.upper() on the names of the signature headers
UpperName(s) ==
    CASE s = "Signature" -> "SIGNATURE"
      [] s = "signature" -> "SIGNATURE"
      [] s = "Signature-Input" -> "SIGNATURE-INPUT"
      [] s = "signature-input" -> "SIGNATURE-INPUT"
      [] OTHER -> s

\* a payload that b64decode rejects
NotBase64(base) == [b64 |-> FALSE, key |-> "<no key>", base |-> base]

\* the request with one signature header dropped, or relabelled sig2, or
\* with the header names in lower or upper case, or with a Signature payload
\* that is not base64
Mangled(req) ==
    LET h == req.headers
        sigs == {k \in DOMAIN h : Lower(k) \in {"signature", "signature-input"}}
    IN {[req EXCEPT !.headers = [n \in DOMAIN h \ {k} |-> h[n]]] : k \in sigs}
       \cup {[req EXCEPT !.headers[k] = [@ EXCEPT !.label = "sig2"]] : k \in sigs}
       \cup {[req EXCEPT !.headers =
                [n \in {Lower(k) : k \in DOMAIN h} |->
                    h[CHOOSE k \in DOMAIN h : Lower(k) = n]]]}
       \cup {[req EXCEPT !.headers =
                [n \in {UpperName(k) : k \in DOMAIN h} |->
                    h[CHOOSE k \in DOMAIN h : UpperName(k) = n]]]}
       \cup {[req EXCEPT !.headers[k] =
                SigValue(@.label, NotBase64(@.payload.base))] :
                k \in {j \in sigs : h[j].kind = "sig"}}

Mangle ==
    /\ wire # NoRequest
    /\ \E r \in Mangled(wire) \ {wire} : wire' = r
    /\ UNCHANGED <<now, trusted_agents, used_nonces, orig, outcome, accepted,
                   accepted_twice, uuid_ctr, ticks, thr, shop>>

SignersP == {TAPSigner("kA", id, ED25519, 300) : id \in {"idA", "idX"}}

RegisterP == Register({<<"idA", Pem("kA"), "Agent A", ED25519>>})
PresentP == Present(SignersP, {0 - 301, 0}, {"x1"}, {CHECKOUT}, Get1)
PresentWithoutP ==
    PresentWithout({TAPSigner("kA", "idA", ED25519, 300)}, AllParams, {0}, {"x2"},
                   {CHECKOUT}, Get1)

NextParse ==
    \/ RegisterP
    \/ PresentP
    \/ PresentWithoutP
    \/ Mangle
    \/ Replay
    \/ Verify

SpecParse == Init /\ [][NextParse]_vars

\* ------------------------------------------------------------------------
\* SpecTime: clients whose clocks are off by up to a minute and a half or
\* that send signatures made five minutes ago, with validities of 300 s,
\* 600 s and -5 s
\* ------------------------------------------------------------------------
SignersT == {TAPSigner("kA", "idA", ED25519, v) : v \in {300, 600, 0 - 5}}
OffsetsT == {0 - 301, 0 - 300, 0, 10, 30, 60, 61, 90}

PresentT == Present(SignersT, OffsetsT, {"x1"}, {BROWSING}, Get1)

NextTime ==
    \/ RegisterP
    \/ PresentT
    \/ TickS
    \/ Verify

SpecTime == Init /\ [][NextTime]_vars

\* ------------------------------------------------------------------------
\* mock-merchant/app/security/tap_middleware.py
\* SpecMW: TAPVerificationMiddleware.dispatch in front of the route handlers
\* ------------------------------------------------------------------------
\* request.headers.get(name) is truthy; the names of request.headers are
\* matched whatever their letter case
HeaderPresent(request, lname) ==
    LET h == LowerKeys(request.headers)
    IN lname \in DOMAIN h /\ Truthy(h[lname])

\* (mutant of BodyForVerify: the body is read whatever the method)
BodyForVerifyAnyMethod(request) ==
    IF request.body # "" THEN request.body ELSE NoBody

\* the body handed to verify: read for POST, PUT and PATCH only, None when
\* empty
BodyForVerify(request) ==
    IF request.method \in {"POST", "PUT", "PATCH"} /\ request.body # ""
    THEN request.body
    ELSE NoBody

\* request.state as the handler finds it (getattr defaults where unset)
RequestState(tap_verified, tap_agent_id, tap_interaction_type, tap_keyid) ==
    [tap_verified |-> tap_verified, tap_agent_id |-> tap_agent_id,
     tap_interaction_type |-> tap_interaction_type, tap_keyid |-> tap_keyid]

Unset == RequestState(FALSE, None, None, None)

\* status_code: 401 of the HTTPException, 500 for an exception out of verify,
\* 0 when the response is the handler's
Rejected(status_code) ==
    [status_code |-> status_code, called_next |-> FALSE, state |-> Unset]
PassedOn(state) == [status_code |-> 0, called_next |-> TRUE, state |-> state]

\* (mutant of AfterVerify: a failed verification is logged and the request
\* goes on as an unsigned one)
AfterVerifyLogOnly(out) ==
    IF out.raised
    THEN Rejected(500)
    ELSE IF ~out.result.is_valid
    THEN PassedOn(Unset)
    ELSE PassedOn(RequestState(TRUE, out.result.agent_id,
                               out.result.interaction_type, out.result.keyid))

\* (mutant of AfterVerify: what the result names is attached whatever its
\* kind)
AfterVerifyAttachAlways(out) ==
    IF out.raised
    THEN Rejected(500)
    ELSE PassedOn(RequestState(TRUE, out.result.agent_id,
                               out.result.interaction_type, out.result.keyid))

\* dispatch after the call of verify
AfterVerify(out) ==
    IF out.raised
    THEN Rejected(500)
    ELSE IF ~out.result.is_valid
    THEN Rejected(401)
    ELSE PassedOn(RequestState(TRUE, out.result.agent_id,
                               out.result.interaction_type, out.result.keyid))

\* TAPVerificationMiddleware.dispatch at time t
dispatch(agents, nonces, t, request) ==
    IF HeaderPresent(request, "signature") /\ HeaderPresent(request, "signature-input")
    THEN LET out == verify(agents, nonces, t, request.method, request.url,
                           LowerKeys(request.headers), BodyForVerify(request))
         IN [ran |-> TRUE, out |-> out] @@ AfterVerify(out)
    ELSE [ran |-> FALSE,
          out |-> Returns(Invalid("<verify not called>", None, NoneInt, NoneInt),
                          nonces)]
         @@ PassedOn(Unset)

\* the middleware handles the presented request
Dispatch ==
    /\ wire # NoRequest
    /\ LET d == dispatch(trusted_agents, used_nonces, now, wire)
           pair == <<d.out.result.keyid, NonceOf(wire)>>
       IN /\ used_nonces' = d.out.nonces
          /\ outcome' = [op |-> "dispatch", raised |-> d.out.raised,
                         result |-> d.out.result, req |-> wire, orig |-> orig,
                         at |-> now, ran |-> d.ran, status_code |-> d.status_code,
                         called_next |-> d.called_next, state |-> d.state]
          /\ accepted' =
                IF d.out.result.is_valid
                THEN accepted \cup {[keyid |-> pair[1], nonce |-> pair[2],
                                     expires |-> d.out.result.expires]}
                ELSE accepted
          /\ accepted_twice' =
                IF d.out.result.is_valid
                   /\ \E a \in accepted : a.keyid = pair[1] /\ a.nonce = pair[2]
                THEN accepted_twice \cup {pair}
                ELSE accepted_twice
    /\ wire' = NoRequest
    /\ orig' = NoRequest
    /\ UNCHANGED <<now, trusted_agents, uuid_ctr, ticks, thr, shop>>

Post1 == Request("POST", Url("https", "merchant.example", "/api/checkout", ""), "b1", NoHeaders)

SignersM == {TAPSigner("kA", "idA", ED25519, 300)}
PresentGetM == Present(SignersM, {0}, {"x1"}, {BROWSING}, Get1)
PresentPostM == Present(SignersM, {0}, {"x2"}, {CHECKOUT}, Post1)

NextMW ==
    \/ RegisterP
    \/ PresentGetM
    \/ PresentPostM
    \/ CorruptSignature
    \/ Mangle
    \/ Dispatch

SpecMW == Init /\ [][NextMW]_vars

\* ------------------------------------------------------------------------
\* SpecRoute: the route-level TAPDependency behind the middleware
\* ------------------------------------------------------------------------
\* TAPDependency.__init__
TAPDependency(require_tap_flag, require_checkout_flag) ==
    [require_tap |-> require_tap_flag, require_checkout |-> require_checkout_flag]

\* the dependency instances of the module
require_tap == TAPDependency(TRUE, FALSE)
require_checkout == TAPDependency(TRUE, TRUE)
optional_tap == TAPDependency(FALSE, FALSE)

\* TAPDependency.__call__ on request.state: the status_code of the
\* HTTPException raised (0 when none is) and the result returned
DependencyCall(self, state) ==
    IF self.require_tap /\ ~state.tap_verified
    THEN [status_code |-> 401,
          result |-> Invalid("This endpoint requires TAP signature authentication",
                             None, NoneInt, NoneInt)]
    ELSE IF self.require_checkout /\ state.tap_interaction_type # CHECKOUT
    THEN [status_code |-> 403,
          result |-> Invalid("This endpoint requires checkout interaction type",
                             None, NoneInt, NoneInt)]
    ELSE [status_code |-> 0,
          result |-> VerificationResult(state.tap_verified, state.tap_agent_id,
                                        state.tap_interaction_type, None,
                                        state.tap_keyid, NoneInt, NoneInt)]

\* the request the middleware passed on reaches a route with a dependency
Route(PolicySet) ==
    /\ outcome # NoOutcome
    /\ outcome.op = "dispatch"
    /\ outcome.called_next
    /\ \E self \in PolicySet :
          LET r == DependencyCall(self, outcome.state)
          IN outcome' = [op |-> "route", policy |-> self,
                         route_status |-> r.status_code,
                         route_result |-> r.result] @@ outcome
    /\ UNCHANGED <<now, trusted_agents, used_nonces, wire, orig, accepted,
                   accepted_twice, uuid_ctr, ticks, thr, shop>>

PresentGetR == Present(SignersM, {0}, {"x1", "x3"}, {BROWSING}, Get1)
RouteR == Route({require_tap, require_checkout, optional_tap, TAPDependency(FALSE, TRUE)})

NextRoute ==
    \/ RegisterP
    \/ PresentGetR
    \/ PresentPostM
    \/ Mangle
    \/ Dispatch
    \/ RouteR

SpecRoute == Init /\ [][NextRoute]_vars

\* ------------------------------------------------------------------------
\* SpecHdr: requests signed over additional headers that lose a covered
\* header on the way
\* ------------------------------------------------------------------------
\* a header other than the two signature headers is dropped from the request
DropCovered ==
    /\ wire # NoRequest
    /\ \E k \in {n \in DOMAIN wire.headers :
                    Lower(n) \notin {"signature", "signature-input"}} :
          wire' = [wire EXCEPT !.headers = [n \in DOMAIN wire.headers \ {k} |->
                                                wire.headers[n]]]
    /\ UNCHANGED <<now, trusted_agents, used_nonces, orig, outcome, accepted,
                   accepted_twice, uuid_ctr, ticks, thr, shop>>

ExtrasH ==
    {[n \in {"x-a"} |-> "v2"],
     [n \in {"x-a"} |-> ""],
     [n \in {"X-B", "x-a"} |-> IF n = "X-B" THEN "v1" ELSE "v2"]}

SignH == Sign(SignersM, {"GET", "POST"}, {U1}, {NoBody, "b1"}, ExtrasH, {BROWSING})

NextHdr ==
    \/ RegisterP
    \/ SignH
    \/ DropCovered
    \/ Verify

SpecHdr == Init /\ [][NextHdr]_vars

\* ------------------------------------------------------------------------
\* SpecReg: a registry that is written several times, with good and bad
\* PEMs, with and without names, and clients that send any tag
\* ------------------------------------------------------------------------
\* a call of register_agent and how it ended: raised is the ValueError of
\* _load_public_key
RegisterAgent(ArgSet) ==
    /\ \E a \in ArgSet :
          /\ trusted_agents' = register_agent(trusted_agents, a[1], a[2], a[3], a[4])
          /\ outcome' = [op |-> "register_agent", raised |-> LoadFails(a[2]),
                         args |-> a]
    /\ UNCHANGED <<now, used_nonces, wire, orig, accepted, accepted_twice,
                   uuid_ctr, ticks, thr, shop>>

ArgsG ==
    {<<"idA", Pem("kA"), "Agent A", ED25519>>,
     <<"idA", Pem("kB"), None, ED25519>>,
     <<"idB", Pem("kB"), "", ED25519>>,
     <<"idA", MalformedPem, "Agent A", ED25519>>,
     <<"idC", MalformedPem, "Agent C", ED25519>>}

SignersG ==
    {TAPSigner("kA", "idA", ED25519, 300), TAPSigner("kB", "idA", ED25519, 300),
     TAPSigner("kB", "idB", ED25519, 300)}

RegisterG == RegisterAgent(ArgsG)
PresentG ==
    Present(SignersG, {0}, {"x1"}, {BROWSING, CHECKOUT, "Checkout", "purchase"}, Get1)
PresentWithoutG == PresentWithout(SignersM, {"tag"}, {0}, {"x2"}, {CHECKOUT}, Get1)

NextReg ==
    \/ RegisterG
    \/ PresentG
    \/ PresentWithoutG
    \/ Verify

SpecReg == Init /\ [][NextReg]_vars

\* ------------------------------------------------------------------------
\* SpecSign: signers of several configurations; what sign returned is kept
\* next to the request it produced
\* ------------------------------------------------------------------------
SignRecorded(SignerSet, MethodSet, UrlSet, BodySet, TagSet) ==
    /\ uuid_ctr < MaxSigns
    /\ wire = NoRequest
    /\ \E self \in SignerSet, method \in MethodSet, url \in UrlSet,
          body \in BodySet, tag \in TagSet :
          LET sc == sign(self, method, url, body, tag, NoHeaders, now,
                         Uuid(uuid_ctr + 1))
              req == Request(method, url, body, to_headers(sc))
          IN /\ wire' = req
             /\ orig' = req
             /\ outcome' = [op |-> "sign", self |-> self, sc |-> sc, at |-> now]
    /\ uuid_ctr' = uuid_ctr + 1
    /\ UNCHANGED <<now, trusted_agents, used_nonces, accepted, accepted_twice,
                   ticks, thr, shop>>

SignersC ==
    {TAPSigner("kA", "idA", ED25519, 300), TAPSigner("kB", "idB", ED25519, 600),
     TAPSigner("kR", "idR", RSA_PSS_SHA256, 60)}

RegisterC ==
    Register({<<"idA", Pem("kA"), "Agent A", ED25519>>,
              <<"idB", Pem("kB"), "Agent B", ED25519>>,
              <<"idR", Pem("kR"), None, RSA_PSS_SHA256>>})
SignC == SignRecorded(SignersC, {"GET"}, {U1}, {NoBody}, {BROWSING, CHECKOUT})

NextSign ==
    \/ RegisterC
    \/ SignC
    \/ TickS
    \/ Verify

SpecSign == Init /\ [][NextSign]_vars

\* ------------------------------------------------------------------------
\* SpecSnap: verify calls on two threads while idA is registered again with
\* another key and another name
\* ------------------------------------------------------------------------
ArgsN ==
    {<<"idA", Pem("kA"), "Agent A", ED25519>>,
     <<"idA", Pem("kB"), "Agent B", ED25519>>}
SignersN ==
    {TAPSigner("kA", "idA", ED25519, 300), TAPSigner("kB", "idA", ED25519, 300)}

RegisterN == Register(ArgsN)
PresentN == Present(SignersN, {0}, {"x1", "x2"}, {BROWSING}, Get1)

NextSnap ==
    \/ RegisterN
    \/ PresentN
    \/ \E t \in Threads : TCheck(t)
    \/ \E t \in Threads : TCommit(t)
    \/ \E t \in Threads : TFinish(t)
    \/ \E t \in Threads : TReturn(t)

SpecSnap == Init /\ [][NextSnap]_vars

\* ------------------------------------------------------------------------
\* SpecBody: requests of every method, signed with and without a body,
\* through the middleware
\* ------------------------------------------------------------------------
MethodsB == {"GET", "POST", "PUT", "PATCH", "DELETE"}
U3 == Url("http", "localhost:8001", "/api/cart/c1/items/p1", "")

\* MerchantClient._request: the methods its callers pass, with the JSON
\* text of a non-empty body or without body
ClientShapes ==
    {<<"GET", NoBody>>, <<"POST", NoBody>>, <<"POST", "b1">>, <<"PUT", "b1">>,
     <<"DELETE", NoBody>>}

SignB == Sign(SignersM, MethodsB, {U3}, {NoBody, "", "b1"}, {NoHeaders}, {BROWSING, CHECKOUT})

NextBody ==
    \/ RegisterP
    \/ SignB
    \/ Dispatch

SpecBody == Init /\ [][NextBody]_vars

\* ------------------------------------------------------------------------
\* SpecShop: the merchant's checkout route behind the middleware; carts are
\* made and filled, signed and unsigned checkout requests come in
\* ------------------------------------------------------------------------
\* POST /api/cart
CreateCart ==
    /\ shop.carts_made < MaxCarts
    /\ shop' = create_cart(shop)
    /\ UNCHANGED <<now, trusted_agents, used_nonces, wire, orig, outcome,
                   accepted, accepted_twice, uuid_ctr, ticks, thr>>

\* POST /api/cart/{cart_id}/items
AddToCart(QuantitySet) ==
    /\ \E cart_id \in DOMAIN shop.carts, product_id \in ProductIds,
          quantity \in QuantitySet :
          /\ shop.stock[product_id] > 0
          /\ shop.stock[product_id] >= quantity
          /\ (IF product_id \in DOMAIN shop.carts[cart_id]
              THEN shop.carts[cart_id][product_id] ELSE 0) + quantity
                <= MaxQuantity
          /\ shop' = [shop EXCEPT
                         !.carts = add_item(@, cart_id, product_id, quantity)]
    /\ UNCHANGED <<now, trusted_agents, used_nonces, wire, orig, outcome,
                   accepted, accepted_twice, uuid_ctr, ticks, thr>>

\* a client without TAP sends a request
SendUnsigned(RequestSet) ==
    /\ wire = NoRequest
    /\ \E r \in RequestSet : wire' = r
    /\ orig' = NoRequest
    /\ outcome' = NoOutcome
    /\ UNCHANGED <<now, trusted_agents, used_nonces, accepted, accepted_twice,
                   uuid_ctr, ticks, thr, shop>>

\* the request the middleware passed on reaches POST /api/checkout, whose
\* dependency is optional_tap
Checkout ==
    /\ outcome.op = "dispatch"
    /\ outcome.called_next
    /\ outcome.req.method = "POST"
    /\ LET tap == DependencyCall(optional_tap, outcome.state).result
           request == ParseCheckout(outcome.req.body)
           r == checkout(shop, request, tap)
       IN /\ shop' = r.shop
          /\ outcome' = [op |-> "checkout", request |-> request, tap |-> tap,
                         checkout_status |-> r.status_code] @@ outcome
    /\ UNCHANGED <<now, trusted_agents, used_nonces, wire, orig, accepted,
                   accepted_twice, uuid_ctr, ticks, thr>>

UCheckout == Url("http", "localhost:8001", "/api/checkout", "")
CheckoutPost(body) == Request("POST", UCheckout, body, NoHeaders)

\* an agent's checkout, an agent's browsing request asking for the same
PresentCheckoutK ==
    \E b \in {"visa c1", "visa c2", "visa c1 no token"} :
        Present(SignersM, {0}, {"x1"}, {CHECKOUT}, CheckoutPost(b))
PresentBrowsingK ==
    \E b \in {"visa c1", "visa c2"} :
        Present(SignersM, {0}, {"x2"}, {BROWSING}, CheckoutPost(b))
SendUnsignedK == SendUnsigned({CheckoutPost("visa c1"), CheckoutPost("card c1")})
AddToCartK == AddToCart({1})

NextShop ==
    \/ RegisterP
    \/ CreateCart
    \/ AddToCartK
    \/ PresentCheckoutK
    \/ PresentBrowsingK
    \/ SendUnsignedK
    \/ Dispatch
    \/ Checkout

SpecShop == Init /\ [][NextShop]_vars

\* ------------------------------------------------------------------------
\* Properties of the nonce store
\* ------------------------------------------------------------------------
\* a step of Verify: the request on the way is answered
VerifyStep == wire # NoRequest /\ wire' = NoRequest

\* the parsed Signature-Input of a request that carries one
ParamsOf(req) == _parse_signature_input(LowerKeys(req.headers)["signature-input"])

\* the three temporal checks pass at time t
FreshAt(req, t) ==
    /\ ParamsOf(req).created <= t + max_clock_skew
    /\ ParamsOf(req).expires >= t
    /\ t - ParamsOf(req).created <= max_signature_age

\* the request carries a signature made, over the base of this very request,
\* by the key registered under its keyid
CorrectlySigned(req, agents) ==
    LET h == LowerKeys(req.headers)
        params == ParamsOf(req)
    IN /\ params.keyid \in DOMAIN agents
       /\ h["signature"].kind = "sig"
       /\ h["signature"].label = "sig1"
       /\ h["signature"].payload.b64
       /\ h["signature"].payload.key = agents[params.keyid].public_key
       /\ h["signature"].payload.base =
             _reconstruct_signature_base(req.method, req.url, req.body, h, params)

\* C1: for one verifier and any sequence of verify calls, no (keyid, nonce)
\* pair is returned as Valid more than once.
C1_NoPairValidTwice == accepted_twice = {}

\* C2: the identical signed request presented twice in a row, both times
\* inside the freshness window, is Valid the first time and NonceReplay the
\* second time.
C2_SecondIsReplay ==
    [][(/\ VerifyStep
        /\ outcome # NoOutcome
        /\ outcome.result.is_valid
        /\ wire = outcome.req
        /\ FreshAt(wire, now))
       => ErrorKind(outcome'.result) = "NonceReplay"]_vars

\* C4: every nonce accepted with a signature whose expires has not passed is
\* still in the nonce store.
C4_NoEarlyEviction ==
    \A a \in accepted : a.expires >= now => a.nonce \in used_nonces

\* C5: after nonce N was accepted for keyid A, a correctly signed, fresh
\* request of another registered keyid B that carries N, a pair not accepted
\* before, is not rejected as NonceReplay.
C5_ReplayScopedToPair ==
    [][(/\ VerifyStep
        /\ CorrectlySigned(wire, trusted_agents)
        /\ FreshAt(wire, now)
        /\ \E a \in accepted :
              a.nonce = ParamsOf(wire).nonce /\ a.keyid # ParamsOf(wire).keyid
        /\ \A a \in accepted :
              ~(a.nonce = ParamsOf(wire).nonce /\ a.keyid = ParamsOf(wire).keyid))
       => ErrorKind(outcome'.result) # "NonceReplay"]_vars

\* C6: a verify call that returns an Invalid result leaves the nonce store
\* unchanged; a fresh nonce that came with a bad signature is not in the
\* store afterwards.
C6_InvalidLeavesStore ==
    [][VerifyStep =>
        /\ ~outcome'.result.is_valid => used_nonces' = used_nonces
        /\ ErrorKind(outcome'.result) = "InvalidSignature"
              => ParamsOf(wire).nonce \notin used_nonces']_vars

\* a request with a bad signature was rejected as InvalidSignature while the
\* store held other nonces, and its own nonce is not in the store
C6_Witness ==
    /\ outcome # NoOutcome
    /\ ErrorKind(outcome.result) = "InvalidSignature"
    /\ used_nonces # {}
    /\ ParamsOf(outcome.req).nonce \notin used_nonces

\* ------------------------------------------------------------------------
\* Properties of the signature check
\* ------------------------------------------------------------------------
\* the request was signed by a key other than the one registered under its
\* keyid, and it passes every check that precedes the signature check
WrongKeyOnly(req, agents, nonces, t) ==
    LET h == LowerKeys(req.headers)
    IN /\ ParamsOf(req).keyid \in DOMAIN agents
       /\ h["signature"].payload.key \in Keys
       /\ h["signature"].payload.key # agents[ParamsOf(req).keyid].public_key
       /\ FreshAt(req, t)
       /\ ParamsOf(req).nonce \notin nonces

\* C7: verify returns Valid only if the keyid is registered and the signature
\* was made, over the base rebuilt from the live request, by the key pair of
\* the public key registered under that keyid; a signature of another
\* agent's key under that keyid yields InvalidSignature.
C7_ValidOnlyIfSigned ==
    [][VerifyStep =>
        /\ outcome'.result.is_valid => CorrectlySigned(wire, trusted_agents)
        /\ WrongKeyOnly(wire, trusted_agents, used_nonces, now)
              => ErrorKind(outcome'.result) = "InvalidSignature"]_vars

\* an unmodified request signed with kA was rejected as InvalidSignature by a
\* verifier that holds kB under the request's keyid
C7_Witness ==
    /\ outcome # NoOutcome
    /\ ErrorKind(outcome.result) = "InvalidSignature"
    /\ outcome.req = outcome.orig
    /\ outcome.req.headers["Signature"].payload.key = "kA"
    /\ "idA" \in DOMAIN trusted_agents
    /\ trusted_agents["idA"].public_key = "kB"

\* C8: a change of method (letter case included), authority, path, query,
\* body (added, removed or modified) or of the value of a covered header
\* between signing and verification makes verify return InvalidSignature.
C8_TamperDetected ==
    [][(/\ VerifyStep
        /\ orig # NoRequest
        /\ wire # orig
        /\ verify(trusted_agents, used_nonces, now, orig.method, orig.url,
                  orig.headers, orig.body).result.is_valid)
       => ErrorKind(outcome'.result) = "InvalidSignature"]_vars

\* C9: for every method, URL, body, set of extra headers and tag, the base
\* the verifier rebuilds from the unmodified request equals the base the
\* signer signed, and the fresh request is accepted by a verifier that holds
\* the matching public key.
C9_RoundTrip ==
    [][(/\ VerifyStep
        /\ orig # NoRequest
        /\ wire = orig
        /\ ParamsOf(wire).keyid \in DOMAIN trusted_agents
        /\ trusted_agents[ParamsOf(wire).keyid].public_key
              = wire.headers["Signature"].payload.key
        /\ FreshAt(wire, now)
        /\ ParamsOf(wire).nonce \notin used_nonces)
       => /\ _reconstruct_signature_base(wire.method, wire.url, wire.body,
                                         LowerKeys(wire.headers), ParamsOf(wire))
                = wire.headers["Signature"].payload.base
          /\ outcome'.result.is_valid]_vars

\* C10: verify reports the first failing check in the order header presence,
\* Signature-Input parse, agent lookup, algorithm match, created in the
\* future, expired, too old, nonce replay, base reconstruction, signature
\* verification.
C10_FirstFailingCheck ==
    [][VerifyStep =>
        LET h == LowerKeys(wire.headers)
            params == ParamsOf(wire)
            missing(n) == n \notin DOMAIN h \/ ~Truthy(h[n])
            covered == {params.components[i] : i \in DOMAIN params.components}
                            \ {"@method", "@authority", "@path", "content-digest"}
            expected ==
                IF missing("signature") \/ missing("signature-input")
                THEN "MalformedHeaders"
                ELSE IF ~StartsWithSig1(h["signature-input"])
                THEN "MalformedHeaders"
                ELSE IF params.keyid \notin DOMAIN trusted_agents
                THEN "UnknownKey"
                ELSE IF params.alg # trusted_agents[params.keyid].algorithm
                THEN "AlgorithmMismatch"
                ELSE IF params.created > now + max_clock_skew
                THEN "CreatedInFuture"
                ELSE IF params.expires < now
                THEN "Expired"
                ELSE IF now - params.created > max_signature_age
                THEN "TooOld"
                ELSE IF params.nonce \in used_nonces
                THEN "NonceReplay"
                ELSE IF \E c \in covered : c \notin DOMAIN h
                THEN "BaseReconstructionFailed"
                ELSE IF ~CorrectlySigned(wire, trusted_agents)
                THEN "InvalidSignature"
                ELSE "Valid"
        IN ErrorKind(outcome'.result) = expected]_vars

\* C11: a request whose alg parameter differs from the algorithm registered
\* for its keyid gets AlgorithmMismatch, whatever its timestamps, its nonce
\* and its signature are.
C11_AlgorithmMismatch ==
    [][(/\ VerifyStep
        /\ ParamsOf(wire).keyid \in DOMAIN trusted_agents
        /\ ParamsOf(wire).alg # trusted_agents[ParamsOf(wire).keyid].algorithm)
       => ErrorKind(outcome'.result) = "AlgorithmMismatch"]_vars

\* the request carries Signature-Input with the sig1 label
HasInput(req) ==
    LET h == LowerKeys(req.headers)
    IN /\ "signature" \in DOMAIN h
       /\ "signature-input" \in DOMAIN h
       /\ h["signature-input"].kind = "input"
       /\ h["signature-input"].label = "sig1"

\* C12: a Signature-Input that lacks one of created, expires, keyid, alg,
\* nonce, tag or the component list is answered MalformedHeaders.
C12_MissingParameter ==
    [][(/\ VerifyStep
        /\ HasInput(wire)
        /\ ParamsOf(wire).has # AllParams)
       => (/\ ~outcome'.raised
           /\ ErrorKind(outcome'.result) = "MalformedHeaders")]_vars

\* C13: verify returns a VerificationResult for every input; no exception
\* leaves it.
C13_NoExceptionEscapes ==
    [][VerifyStep => ~outcome'.raised]_vars

\* C14: a request without Signature, without Signature-Input, or whose
\* Signature header does not carry the sig1 label is answered
\* MalformedHeaders, whatever its keyid, timestamps and nonce are; the two
\* headers are found under any letter case of their names.
C14_HeaderPresenceFirst ==
    [][VerifyStep =>
        LET h == LowerKeys(wire.headers)
        IN /\ (\/ "signature" \notin DOMAIN h
               \/ "signature-input" \notin DOMAIN h
               \/ h["signature"].label # "sig1")
              => (~outcome'.raised /\ ErrorKind(outcome'.result) = "MalformedHeaders")
           /\ ("signature" \in DOMAIN h /\ "signature-input" \in DOMAIN h)
              => outcome'.result.error_message
                    # "Missing Signature or Signature-Input headers"]_vars

\* C15: every Valid result was given at a time at with
\* created <= at + max_clock_skew, expires >= at and
\* at - created <= max_signature_age.
C15_ValidIsFresh ==
    (outcome # NoOutcome /\ outcome.result.is_valid)
    => /\ outcome.result.created <= outcome.at + max_clock_skew
       /\ outcome.result.expires >= outcome.at
       /\ outcome.at - outcome.result.created <= max_signature_age

\* a signature created 60 s ahead of the verifier's clock was answered Valid
C15_Witness ==
    /\ outcome # NoOutcome
    /\ outcome.result.is_valid
    /\ outcome.result.created = outcome.at + max_clock_skew

\* the request is correctly signed by a registered agent, its nonce is
\* unused and its expires lies after its created
OtherwiseValid(req, agents, nonces) ==
    /\ CorrectlySigned(req, agents)
    /\ ParamsOf(req).nonce \notin nonces
    /\ ParamsOf(req).expires > ParamsOf(req).created

\* C16: for an otherwise valid request, created = now + 60 (and now + 30) is
\* accepted and created = now + 61 (and now + 90) is CreatedInFuture;
\* expires = now is accepted and expires = now - 1 is Expired;
\* now - created = 300 is accepted.
C16_StrictEdges ==
    [][(VerifyStep /\ OtherwiseValid(wire, trusted_agents, used_nonces)) =>
        LET created == ParamsOf(wire).created
            expires == ParamsOf(wire).expires
            kind == ErrorKind(outcome'.result)
        IN /\ (created \in {now + 30, now + max_clock_skew} /\ expires >= now)
              => kind = "Valid"
           /\ created \in {now + max_clock_skew + 1, now + 90}
              => kind = "CreatedInFuture"
           /\ (expires = now /\ now - created <= max_signature_age)
              => kind = "Valid"
           /\ (expires = now - 1 /\ created <= now + max_clock_skew)
              => kind = "Expired"
           /\ (now - created = max_signature_age /\ expires >= now)
              => kind = "Valid"]_vars

\* a signature created 300 s ago that expires this second was answered Valid
C16_Witness ==
    /\ outcome # NoOutcome
    /\ outcome.result.is_valid
    /\ outcome.at - outcome.result.created = max_signature_age
    /\ outcome.result.expires = outcome.at

\* C17: a correctly signed request of a registered agent with an unused nonce
\* and created = now - 301 is answered TooOld, whatever its expires is.
C17_TooOldWhateverExpires ==
    [][(/\ VerifyStep
        /\ CorrectlySigned(wire, trusted_agents)
        /\ ParamsOf(wire).nonce \notin used_nonces
        /\ ParamsOf(wire).created = now - (max_signature_age + 1))
       => ErrorKind(outcome'.result) = "TooOld"]_vars

\* C17 as amended: such a request is answered TooOld when its expires is not
\* before now, and Expired when it is.
C17_TooOldUnlessExpired ==
    [][(/\ VerifyStep
        /\ CorrectlySigned(wire, trusted_agents)
        /\ ParamsOf(wire).nonce \notin used_nonces
        /\ ParamsOf(wire).created = now - (max_signature_age + 1))
       => ErrorKind(outcome'.result) =
            IF ParamsOf(wire).expires < now THEN "Expired" ELSE "TooOld"]_vars

\* a signature created 301 s ago and valid for 600 s was answered TooOld
C17_Witness ==
    /\ outcome # NoOutcome
    /\ ErrorKind(outcome.result) = "TooOld"
    /\ outcome.result.created = outcome.at - (max_signature_age + 1)
    /\ ParamsOf(outcome.req).expires >= outcome.at

\* C18: no Valid result carries an expires that is not after its created.
C18_ExpiresAfterCreated ==
    (outcome # NoOutcome /\ outcome.result.is_valid)
    => outcome.result.expires > outcome.result.created

DispatchStep == wire # NoRequest /\ wire' = NoRequest /\ outcome'.op = "dispatch"

\* C19: a request that carries at least one of Signature and Signature-Input
\* is handed to the verifier; with only one of the two it is rejected and
\* the handler is not called.
C19_EitherHeaderVerified ==
    [][DispatchStep =>
        LET sig == HeaderPresent(wire, "signature")
            inp == HeaderPresent(wire, "signature-input")
        IN /\ (sig \/ inp) => outcome'.ran
           /\ (sig # inp) => ~outcome'.called_next]_vars

\* C20: when verify returns an Invalid result the middleware answers 401 and
\* does not call the handler; when it returns Valid the handler is called
\* with agent_id, interaction_type and keyid of the result in request.state.
C20_RejectOrAttach ==
    [][(DispatchStep /\ outcome'.ran /\ ~outcome'.raised) =>
        IF outcome'.result.is_valid
        THEN /\ outcome'.called_next
             /\ outcome'.state.tap_verified
             /\ outcome'.state.tap_agent_id = outcome'.result.agent_id
             /\ outcome'.state.tap_interaction_type = outcome'.result.interaction_type
             /\ outcome'.state.tap_keyid = outcome'.result.keyid
        ELSE /\ outcome'.status_code = 401
             /\ ~outcome'.called_next]_vars

\* the middleware answered 401 to a request whose signature did not verify
C20_Witness ==
    /\ outcome # NoOutcome
    /\ outcome.op = "dispatch"
    /\ outcome.ran
    /\ ErrorKind(outcome.result) = "InvalidSignature"
    /\ outcome.status_code = 401

RouteStep == outcome # NoOutcome /\ outcome.op = "dispatch" /\ outcome'.op = "route"

\* C21: a route filter answers 403 to every request whose attached result
\* does not satisfy its policy: to an unsigned request under require_tap,
\* and to a request whose interaction type is not checkout under
\* require_checkout.
C21_PolicyRejects403 ==
    [][RouteStep =>
        /\ (outcome'.policy.require_tap /\ ~outcome.state.tap_verified)
           => outcome'.route_status = 403
        /\ (/\ outcome'.policy.require_checkout
            /\ outcome.state.tap_interaction_type # CHECKOUT)
           => outcome'.route_status = 403]_vars

\* C22: a correctly signed, verified request tagged browsing that reaches a
\* require_checkout route is answered 403, the verification has succeeded
\* before, and its nonce is in the verifier's nonce store.
C22_ForbiddenAfterCommit ==
    [][(/\ RouteStep
        /\ outcome'.policy = require_checkout
        /\ outcome.ran
        /\ outcome.result.is_valid
        /\ outcome.result.interaction_type = BROWSING)
       => /\ outcome'.route_status = 403
          /\ NonceOf(outcome.req) \in used_nonces]_vars

\* the components the Signature-Input of a signed request lists
ComponentsOf(req) == UnquoteAll(req.headers["Signature-Input"].line.components)
ListsComponent(req, c) == \E i \in DOMAIN ComponentsOf(req) : ComponentsOf(req)[i] = c

\* C23: the Signature-Input that sign produces lists content-digest if and
\* only if the body passed to sign is non-empty.
C23_DigestIffBody ==
    orig # NoRequest
    => (ListsComponent(orig, "content-digest") <=> orig.body \notin {NoBody, ""})

\* the lines of a base are those of the components, one each, in order
OneLinePerComponent(base, components) ==
    /\ LineCount(base) = Len(components) + 1
    /\ \A i \in DOMAIN components :
          i \in DOMAIN base.lines /\ base.lines[i].name = components[i]

\* C24: in the base the signer signs and in the base the verifier rebuilds,
\* every covered component has exactly one line, in the order of the list,
\* followed by the @signature-params line: len(covered_components) + 1 lines.
C24_OneLinePerComponent ==
    [][VerifyStep =>
        /\ orig # NoRequest
           => OneLinePerComponent(orig.headers["Signature"].payload.base,
                                  ComponentsOf(orig))
        /\ OneLinePerComponent(
                _reconstruct_signature_base(wire.method, wire.url, wire.body,
                                            LowerKeys(wire.headers), ParamsOf(wire)),
                ParamsOf(wire).components)]_vars

\* C30: the @signature-params value of the base the signer signs is the text
\* after sig1= of the Signature-Input it emits, and the verifier's
\* @signature-params value is the text after sig1= of the header received.
C30_ParamsLineVerbatim ==
    [][VerifyStep =>
        /\ orig # NoRequest
           => orig.headers["Signature"].payload.base.params
                = orig.headers["Signature-Input"].line
        /\ _reconstruct_signature_base(wire.method, wire.url, wire.body,
                                       LowerKeys(wire.headers), ParamsOf(wire)).params
             = LowerKeys(wire.headers)["signature-input"].line]_vars

\* a POST with a body, whose Signature-Input lists content-digest, was
\* verified as signed and answered Valid
C30_Witness ==
    /\ outcome # NoOutcome
    /\ outcome.op = "verify"
    /\ outcome.result.is_valid
    /\ outcome.req = outcome.orig
    /\ outcome.req.body = "b1"
    /\ ListsComponent(outcome.req, "content-digest")

\* the covered components that name a header the request does not carry
MissingCovered(req) ==
    {c \in {ParamsOf(req).components[i] : i \in DOMAIN ParamsOf(req).components} :
        /\ c \notin {"@method", "@authority", "@path", "content-digest"}
        /\ Lower(c) \notin DOMAIN LowerKeys(req.headers)}

\* C25: a request that passes the checks before the reconstruction and whose
\* covered components name a header it does not carry is answered
\* BaseReconstructionFailed, never Valid.
C25_MissingCoveredHeader ==
    [][(/\ VerifyStep
        /\ ParamsOf(wire).keyid \in DOMAIN trusted_agents
        /\ FreshAt(wire, now)
        /\ ParamsOf(wire).nonce \notin used_nonces
        /\ MissingCovered(wire) # {})
       => ErrorKind(outcome'.result) = "BaseReconstructionFailed"]_vars

RegisterStep == outcome'.op = "register_agent" /\ wire' = wire

\* C26: a successful register_agent leaves one entry for its keyid, made of
\* the arguments of this call, and leaves the other entries alone; a Valid
\* result is given only to a signature of the key now registered.
C26_LastWriterWins ==
    [][/\ (RegisterStep /\ ~outcome'.raised) =>
            LET a == outcome'.args
            IN /\ DOMAIN trusted_agents' = DOMAIN trusted_agents \cup {a[1]}
               /\ trusted_agents'[a[1]] =
                    [public_key |-> a[2][2],
                     name |-> IF a[3] \in {None, ""} THEN a[1] ELSE a[3],
                     algorithm |-> a[4]]
               /\ \A k \in DOMAIN trusted_agents \ {a[1]} :
                    trusted_agents'[k] = trusted_agents[k]
       /\ (VerifyStep /\ outcome'.result.is_valid) =>
            wire.headers["Signature"].payload.key
                = trusted_agents[ParamsOf(wire).keyid].public_key]_vars

\* idA was registered again, with agent B's key, while it was registered
C26_Witness ==
    /\ outcome # NoOutcome
    /\ outcome.op = "register_agent"
    /\ outcome.args[2] = Pem("kB")
    /\ outcome.args[1] = "idA"
    /\ trusted_agents["idA"].public_key = "kB"
    /\ \E e \in accepted : e.keyid = "idA"

\* C27: register_agent with a malformed PEM raises and leaves the registry
\* as it was.
C27_MalformedLeavesRegistry ==
    [][(RegisterStep /\ outcome'.args[2] \notin {Pem(k) : k \in Keys})
       => /\ outcome'.raised
          /\ trusted_agents' = trusted_agents]_vars

\* a malformed PEM was offered for idA while idA was registered
C27_Witness ==
    /\ outcome # NoOutcome
    /\ outcome.op = "register_agent"
    /\ outcome.raised
    /\ outcome.args[1] = "idA"
    /\ "idA" \in DOMAIN trusted_agents

\* C29: a Valid result has interaction type checkout exactly when the tag is
\* the string "checkout" and browsing for any other tag; its agent_id is the
\* name registered for the keyid; keyid, created and expires are the parsed
\* parameters.
C29_ValidResultFields ==
    [][(VerifyStep /\ outcome'.result.is_valid) =>
        LET params == ParamsOf(wire)
            r == outcome'.result
        IN /\ r.interaction_type =
                IF params.tag = "checkout" THEN CHECKOUT ELSE BROWSING
           /\ r.agent_id = trusted_agents[params.keyid].name
           /\ r.keyid = params.keyid
           /\ r.created = params.created
           /\ r.expires = params.expires]_vars

\* a request tagged "Checkout" was answered Valid, browsing
C29_Witness ==
    /\ outcome # NoOutcome
    /\ outcome.op = "verify"
    /\ outcome.result.is_valid
    /\ ParamsOf(outcome.req).tag = "Checkout"
    /\ outcome.result.interaction_type = BROWSING

\* C28: no TAPSigner exists whose key is of another type than its algorithm,
\* so the alg label of every Signature-Input that sign emits names the
\* scheme the signature was made with.
C28_AlgNamesScheme ==
    (/\ wire # NoRequest
     /\ "Signature" \in DOMAIN wire.headers
     /\ "Signature-Input" \in DOMAIN wire.headers
     /\ wire.headers["Signature"].payload.key \in Keys)
    => LET alg == wire.headers["Signature-Input"].line.alg
           key == wire.headers["Signature"].payload.key
       IN /\ alg = "ed25519" <=> key \in Ed25519Keys
          /\ alg = "rsa-pss-sha256" <=> key \in RsaKeys

\* ------------------------------------------------------------------------
\* Layout of the signature base (SpecRT)
\* ------------------------------------------------------------------------
\* the request was signed without additional headers
NoExtras(req) == DOMAIN req.headers = {"Signature", "Signature-Input"}

\* C31: for a GET signed without body and without additional headers the
\* covered components are exactly @method, @authority, @path and the base is
\* exactly the lines @method (uppercased), @authority (host[:port]), @path
\* (path and ?query, "/" for an empty path), @signature-params, whose
\* parameters follow the component list in the order created, expires,
\* keyid, alg, nonce, tag; with a non-empty body content-digest comes
\* immediately after @path.
C31_BaseLayout ==
    (orig # NoRequest /\ NoExtras(orig))
    => LET base == orig.headers["Signature"].payload.base
           comps == ComponentsOf(orig)
           path == IF orig.url = U2
                   THEN <<"/">>
                   ELSE <<"/api/products", "?", "q=headphones">>
           authority == IF orig.url = U2
                        THEN "merchant.example:8443"
                        ELSE "merchant.example"
       IN /\ base.params.has = AllParams
          /\ base.params.order
                = <<"created", "expires", "keyid", "alg", "nonce", "tag">>
          /\ (orig.method \in {"GET", "get"} /\ orig.body = NoBody)
             => /\ comps = <<"@method", "@authority", "@path">>
                /\ base.lines = << Line("@method", <<"GET">>),
                                   Line("@authority", <<authority>>),
                                   Line("@path", path) >>
          /\ orig.body \notin {NoBody, ""}
             => /\ comps = <<"@method", "@authority", "@path", "content-digest">>
                /\ Len(base.lines) = 4
                /\ base.lines[3] = Line("@path", path)
                /\ base.lines[4]
                     = Line("content-digest", ContentDigest(orig.body))

\* a lower-case get for a URL with a port and an empty path was signed
\* without body and without additional headers
C31_Witness ==
    /\ orig # NoRequest
    /\ NoExtras(orig)
    /\ orig.method = "get"
    /\ orig.url = U2
    /\ orig.body = NoBody
    /\ orig.headers["Signature"].payload.base.lines[3].value = <<"/">>

\* ------------------------------------------------------------------------
\* What sign returns (SpecSign)
\* ------------------------------------------------------------------------
SignStep == wire = NoRequest /\ outcome'.op = "sign"

\* the nonces of the requests the verifier has seen
SeenNonces ==
    {a.nonce : a \in accepted} \cup used_nonces
    \cup (IF outcome.op = "verify" THEN {NonceOf(outcome.req)} ELSE {})
    \cup (IF outcome.op = "sign" THEN {outcome.sc.nonce} ELSE {})

\* C32: every SignatureComponents that sign returns has expires = created +
\* validity_seconds, the keyid and the algorithm of the signer that made
\* it, and a nonce no earlier sign call of any signer returned; the
\* Signature-Input it carries spells the same values.
C32_SignResult ==
    [][SignStep =>
        LET sc == outcome'.sc
            self == outcome'.self
            line == sc.signature_input.line
        IN /\ self \in SignersC
           /\ sc.created = now
           /\ sc.expires = sc.created + self.validity_seconds
           /\ sc.keyid = self.keyid
           /\ sc.algorithm = self.algorithm
           /\ sc.nonce \notin SeenNonces
           /\ line.created = sc.created
           /\ line.expires = sc.expires
           /\ line.keyid = sc.keyid
           /\ line.nonce = sc.nonce
           /\ sc.signature.payload.key = self.private_key]_vars

\* the signer configured with 600 seconds signed after a request of the
\* signer configured with 300 seconds had been accepted
C32_Witness ==
    /\ outcome.op = "sign"
    /\ outcome.self.validity_seconds = 600
    /\ outcome.sc.expires = outcome.sc.created + 600
    /\ \E a \in accepted : a.keyid = "idA" /\ a.nonce # outcome.sc.nonce

\* ------------------------------------------------------------------------
\* Order of the additional headers (SpecRT)
\* ------------------------------------------------------------------------
\* the names of the additional headers a signed request was sent with
ExtraNames(req) == DOMAIN req.headers \ {"Signature", "Signature-Input"}

\* the last n entries of a sequence
LastOf(q, n) == [i \in 1..n |-> q[Len(q) - n + i]]

\* the signer's list ends with the additional headers, and the base it
\* signed ends with their lines, in the same order
ExtrasLast(req) ==
    LET n == Cardinality(ExtraNames(req))
        comps == ComponentsOf(req)
        lines == req.headers["Signature"].payload.base.lines
    IN /\ Len(comps) >= 3 + n
       /\ Len(lines) >= 3 + n
       /\ {LastOf(comps, n)[i] : i \in 1..n} = {Lower(h) : h \in ExtraNames(req)}
       /\ \A i \in 1..n : LastOf(lines, n)[i].name = LastOf(comps, n)[i]

\* a is b with some entries left out
RECURSIVE IsSubseq(_, _)
IsSubseq(a, b) ==
    IF a = <<>> THEN TRUE
    ELSE IF b = <<>> THEN FALSE
    ELSE IF Head(a) = Head(b) THEN IsSubseq(Tail(a), Tail(b))
    ELSE IsSubseq(a, Tail(b))

\* the verifier's lines follow the list received: their names are those of
\* the list, in its order
VerifierKeepsOrder(req) ==
    LET lines == _reconstruct_signature_base(req.method, req.url, req.body,
                                             LowerKeys(req.headers),
                                             ParamsOf(req)).lines
    IN IsSubseq([i \in DOMAIN lines |-> lines[i].name], ParamsOf(req).components)

\* C33 as stated: the additional headers are listed after the derived
\* components and content-digest, lowercased, the lowercased names in
\* lexicographic order, their base lines in the same order, and the
\* verifier keeps the order received.
C33_ExtrasLexicographic ==
    /\ orig # NoRequest
       => /\ ExtrasLast(orig)
          /\ LET n == Cardinality(ExtraNames(orig))
                 last == LastOf(ComponentsOf(orig), n)
             IN \A i, j \in 1..n : i < j => NameRank(last[i]) < NameRank(last[j])
    /\ wire # NoRequest => VerifierKeepsOrder(wire)

\* C33 amended: the additional headers are listed after the derived
\* components and content-digest in the lexicographic order of their names
\* as given to sign, each name then lowercased, their base lines in the
\* same order, and the verifier keeps the order received.
C33_ExtrasInKeyOrder ==
    /\ orig # NoRequest
       => /\ ExtrasLast(orig)
          /\ LET n == Cardinality(ExtraNames(orig))
                 last == LastOf(ComponentsOf(orig), n)
             IN \A a, b \in ExtraNames(orig) :
                   NameRank(a) < NameRank(b)
                   => \E i, j \in 1..n :
                         i < j /\ last[i] = Lower(a) /\ last[j] = Lower(b)
    /\ wire # NoRequest => VerifierKeepsOrder(wire)

\* a request signed with the additional headers X-B and x-a lists x-b before
\* x-a, and the verifier's base has the two lines in that order
C33_Witness ==
    /\ orig # NoRequest
    /\ wire = orig
    /\ ExtraNames(orig) = {"X-B", "x-a"}
    /\ LastOf(ComponentsOf(orig), 2) = <<"x-b", "x-a">>
    /\ LET lines == _reconstruct_signature_base(wire.method, wire.url, wire.body,
                                                LowerKeys(wire.headers),
                                                ParamsOf(wire)).lines
       IN LastOf(lines, 2) = << Line("x-b", <<"v1">>), Line("x-a", <<"v2">>) >>

\* ------------------------------------------------------------------------
\* Size of the nonce store (Spec)
\* ------------------------------------------------------------------------
\* C34: whenever no verify call is running, the nonce store holds at most
\* as many nonces as the high-water mark.
C34_StoreBounded == Cardinality(used_nonces) <= NonceHighWater

\* a request was answered Valid and its nonce took the store over the mark:
\* the store is empty although more nonces than the mark were accepted
C34_Witness ==
    /\ outcome.op = "verify"
    /\ outcome.result.is_valid
    /\ used_nonces = {}
    /\ Cardinality({a.nonce : a \in accepted}) > NonceHighWater

\* ------------------------------------------------------------------------
\* The registry seen by a verify call in flight (SpecSnap)
\* ------------------------------------------------------------------------
\* the key pair that made the Signature of a request
SignedBy(req) == req.headers["Signature"].payload.key

\* C35: a verify call that runs while register_agent is called verifies
\* against one registration of the keyid: the key that made the accepted
\* signature and the agent_id of the result are those of one and the same
\* register_agent call, and a keyid found at the lookup is still registered
\* when the signature is verified.
C35_ConsistentSnapshot ==
    \A t \in Threads :
        /\ thr[t].pc = "checked"
           => ParamsOf(thr[t].req).keyid \in DOMAIN trusted_agents
        /\ (thr[t].pc \in {"added", "done"} /\ thr[t].result.is_valid)
           => \E a \in ArgsN :
                 /\ a[1] = thr[t].result.keyid
                 /\ a[2] = Pem(SignedBy(thr[t].req))
                 /\ a[3] = thr[t].result.agent_id

\* idA was registered again between the lookup and the signature check of
\* a call that then answered Valid, under the later registration
C35_Witness ==
    \E t \in Threads :
        /\ thr[t].pc = "done"
        /\ thr[t].result.is_valid
        /\ thr[t].found.name = "Agent B"
        /\ thr[t].result.agent_id = "Agent A"
        /\ SignedBy(thr[t].req) = "kA"

\* ------------------------------------------------------------------------
\* What the handler is told (SpecMW)
\* ------------------------------------------------------------------------
\* C36: the handler is called with tap_verified = True only when verify
\* answered Valid for the request at hand, and then tap_agent_id,
\* tap_interaction_type and tap_keyid are those of that result; a request
\* with neither Signature nor Signature-Input reaches the handler with
\* tap_verified = False and without agent id and interaction type.
C36_VerifiedOnlyIfValid ==
    [][DispatchStep =>
        LET v == verify(trusted_agents, used_nonces, now, wire.method, wire.url,
                        LowerKeys(wire.headers), BodyForVerify(wire))
            st == outcome'.state
        IN /\ (outcome'.called_next /\ st.tap_verified)
              => /\ outcome'.ran
                 /\ outcome'.req = wire
                 /\ ~v.raised
                 /\ v.result.is_valid
                 /\ st.tap_agent_id = v.result.agent_id
                 /\ st.tap_interaction_type = v.result.interaction_type
                 /\ st.tap_keyid = v.result.keyid
           /\ (~HeaderPresent(wire, "signature")
                /\ ~HeaderPresent(wire, "signature-input"))
              => /\ outcome'.called_next
                 /\ ~st.tap_verified
                 /\ st.tap_agent_id = None
                 /\ st.tap_interaction_type = None
                 /\ used_nonces' = used_nonces]_vars

\* a signed checkout POST reached the handler as verified
C36_Witness ==
    /\ outcome.op = "dispatch"
    /\ outcome.called_next
    /\ outcome.state.tap_verified
    /\ outcome.state.tap_interaction_type = CHECKOUT
    /\ outcome.state.tap_keyid = "idA"
    /\ outcome.req.method = "POST"

\* ------------------------------------------------------------------------
\* The body the middleware verifies with (SpecBody)
\* ------------------------------------------------------------------------
\* the base verify rebuilds when it is handed the given body
RebuiltWith(req, body) ==
    _reconstruct_signature_base(req.method, req.url, body, LowerKeys(req.headers),
                                ParamsOf(req))

\* C37: the middleware verifies with the request's body for POST, PUT and
\* PATCH only (with no body when it is empty) and with no body for every
\* other method: an untampered request of another method signed over a
\* non-empty body is rejected with an invalid signature, and every request
\* of the shapes MerchantClient sends is rebuilt to the base that was signed
\* and, its agent registered, accepted.
C37_BodyByMethod ==
    [][(DispatchStep /\ wire = orig) =>
        LET signed == orig.headers["Signature"].payload.base
            withbody == wire.method \in {"POST", "PUT", "PATCH"}
            nonempty == wire.body \notin {NoBody, ""}
            registered == ParamsOf(wire).keyid \in DOMAIN trusted_agents
            bodyless == RebuiltWith(wire, NoBody)
        IN /\ outcome'.ran
           /\ (withbody /\ nonempty)
              => /\ RebuiltWith(wire, wire.body) = signed
                 /\ bodyless # signed
                 /\ registered => outcome'.result.is_valid
           /\ (~withbody /\ nonempty)
              => /\ bodyless # signed
                 /\ ~outcome'.result.is_valid
                 /\ outcome'.status_code = 401
                 /\ registered
                    => ErrorKind(outcome'.result) = "InvalidSignature"
           /\ ~nonempty
              => /\ bodyless = signed
                 /\ registered => outcome'.result.is_valid
           /\ <<wire.method, wire.body>> \in ClientShapes
              => /\ registered => outcome'.result.is_valid
                 /\ registered => outcome'.called_next]_vars

\* a DELETE signed over the body b1 came in as it was signed, its agent
\* registered, and was answered 401 for its signature
C37_Witness ==
    /\ outcome.op = "dispatch"
    /\ outcome.req = outcome.orig
    /\ outcome.req.method = "DELETE"
    /\ outcome.req.body = "b1"
    /\ outcome.status_code = 401
    /\ ErrorKind(outcome.result) = "InvalidSignature"

\* ------------------------------------------------------------------------
\* Orders paid with a Visa token (SpecShop)
\* ------------------------------------------------------------------------
CheckoutStep == outcome.op = "dispatch" /\ outcome'.op = "checkout"

\* the verifier answered Valid, with interaction type checkout, for the
\* request that reached the route
VerifiedCheckout(o) ==
    o.ran /\ o.result.is_valid /\ o.result.interaction_type = CHECKOUT

\* the request came without signature headers, or was verified as browsing
UnsignedOrBrowsing(o) ==
    \/ ~o.ran
    \/ o.result.is_valid /\ o.result.interaction_type = BROWSING

\* an order with payment method VISA_TOKEN is created only by a request
\* verified with interaction type checkout, and then the stock is
\* decremented, the order stored and the cart deleted
VisaOrderOnlyVerified ==
    (CheckoutStep /\ outcome'.request.payment.method = VISA_TOKEN
       /\ shop' # shop)
    => /\ VerifiedCheckout(outcome)
       /\ outcome'.checkout_status = 200
       /\ Len(shop'.orders) = Len(shop.orders) + 1
       /\ shop'.orders[Len(shop'.orders)].payment_method = VISA_TOKEN
       /\ outcome'.request.cart_id \in DOMAIN shop.carts
       /\ outcome'.request.cart_id \notin DOMAIN shop'.carts
       /\ \A p \in ProductIds :
             shop'.stock[p] =
                shop.stock[p]
                - (IF p \in DOMAIN shop.carts[outcome'.request.cart_id]
                   THEN shop.carts[outcome'.request.cart_id][p] ELSE 0)

\* C38 as stated: an order paid with VISA_TOKEN is created (stock
\* decremented, order stored, cart deleted) only when the request was
\* TAP-verified with interaction type checkout; an unsigned request or a
\* verified browsing request asking for VISA_TOKEN payment is answered 403
\* and leaves stock, orders and the cart unchanged.
C38_VisaTokenNeedsCheckout ==
    [][/\ VisaOrderOnlyVerified
       /\ (CheckoutStep /\ outcome'.request.payment.method = VISA_TOKEN
             /\ UnsignedOrBrowsing(outcome))
          => /\ outcome'.checkout_status = 403
             /\ shop' = shop]_vars

\* C38 amended: ... an unsigned request or a verified browsing request
\* asking for VISA_TOKEN payment leaves stock, orders and the cart
\* unchanged and is answered 404 when the cart does not exist, 400 when it
\* is empty and 403 otherwise.
C38_VisaTokenRefused ==
    [][/\ VisaOrderOnlyVerified
       /\ (CheckoutStep /\ outcome'.request.payment.method = VISA_TOKEN
             /\ UnsignedOrBrowsing(outcome))
          => /\ shop' = shop
             /\ outcome'.checkout_status =
                   (IF outcome'.request.cart_id \notin DOMAIN shop.carts
                    THEN 404
                    ELSE IF DOMAIN shop.carts[outcome'.request.cart_id] = {}
                    THEN 400
                    ELSE 403)]_vars

\* a verified browsing request asked for VISA_TOKEN payment of a filled
\* cart and was answered 403, after an order paid with a Visa token had
\* been created
C38_Witness ==
    /\ outcome.op = "checkout"
    /\ outcome.request.payment.method = VISA_TOKEN
    /\ outcome.result.is_valid
    /\ outcome.result.interaction_type = BROWSING
    /\ outcome.checkout_status = 403
    /\ outcome.request.cart_id \in DOMAIN shop.carts
    /\ Len(shop.orders) = 1
    /\ shop.orders[1].payment_method = VISA_TOKEN

====
